---------------------------- MODULE Spec2Model ----------------------------
(***************************************************************************)
(* A model of the OpenMatch matching and settlement pipeline:              *)
(*   - the three balance ledgers (openmatch-core BalanceManager behind     *)
(*     SecuredBalanceManager, openmatch-ingress BalanceManager,            *)
(*     openmatch-settlement Tier1Settler),                                 *)
(*   - the two settlement idempotency guards,                              *)
(*   - the two matchers (openmatch-core BatchMatcher over a PendingBuffer, *)
(*     openmatch-matchcore match_sealed_batch over a SealedBatch).         *)
(*                                                                         *)
(* Decimal amounts and quantities are integers.  Prices are integers that  *)
(* count half ticks, so that the midpoint (bid + ask) / 2 of two order     *)
(* prices (even numbers of half ticks) is exact, as it is for Decimal.     *)
(*                                                                         *)
(* The variable sut names the implementation a behaviour exercises; the    *)
(* actions of the other implementations are disabled in that behaviour.    *)
(***************************************************************************)
EXTENDS Integers, Sequences, FiniteSets, TLC

VARIABLES
    sut,                \* which implementation this behaviour drives
    last,               \* the last call made and the value it returned
    balances,           \* HashMap<(UserId, Asset), BalanceEntry> of the ledger
    settled,            \* idempotency guard: HashSet<TradeId>
    order,              \* idempotency guard: VecDeque<TradeId>, front = oldest
    current_phase,      \* WithdrawLock.current_phase
    emergency_lock,     \* WithdrawLock.emergency_lock
    total_deposits,     \* SupplyConservation deposits per asset
    total_withdrawals,  \* SupplyConservation withdrawals per asset
    ops_count,          \* SecuredBalanceManager.ops_count
    marked_log,         \* history: the trade ids mark_settled accepted, in order
    settled_ok,         \* history: the trade ids whose settle_trade returned Ok
    calls,              \* history: the number of calls made so far
    core_buffers,       \* the core PendingBuffers of node 1 and node 2
    ingress_buffer,     \* the ingress PendingBuffer
    sealed_batch,       \* Option<SealedBatch> made by the BatchSealer
    results,            \* the BatchResults / TradeBundles of the matching runs
    now,                \* the clock (Utc::now())
    spend_rights,       \* EscrowManager.spend_rights: HashMap<SpendRightId, SpendRight>
    dummy_sr,           \* a SpendRight held outside an EscrowManager
    windows,            \* OrderRateLimiter.windows: user -> VecDeque of timestamps
    epoch_counts,       \* OrderRateLimiter.epoch_counts: user -> count
    accepted_log,       \* history: per user, the timestamps check_and_record accepted
    epoch_log,          \* history: per user, those accepted since the last reset_epoch
    last_ms,            \* history: the largest now_ms passed so far
    used_nonces,        \* NonceTracker.used_nonces: node -> HashSet of nonces
    nonce_log,          \* history: per node, the nonces accepted since its last clear
    reference_prices,   \* PriceSanityChecker.reference_prices: market -> price
    epoch_order_counts, \* RiskKernel.epoch_order_counts: user -> count
    current_epoch,      \* RiskKernel.current_epoch
    last_prices,        \* RiskKernel.last_prices: market -> price
    validated_log       \* history: per user, the validate calls that returned Ok
                        \* since the last advance_epoch (orders, cancels)

ledgerVars == <<balances, settled, order, current_phase, emergency_lock,
                total_deposits, total_withdrawals, ops_count>>
historyVars == <<marked_log, settled_ok>>
matchVars == <<core_buffers, ingress_buffer, sealed_batch, results, now>>
escrowVars == <<spend_rights, dummy_sr>>
limiterVars == <<windows, epoch_counts, accepted_log, epoch_log, last_ms>>
securityVars == <<used_nonces, nonce_log, reference_prices>>
riskVars == <<epoch_order_counts, current_epoch, last_prices, validated_log>>
serviceVars == <<escrowVars, limiterVars, securityVars, riskVars>>

-----------------------------------------------------------------------------
(* Bounds of the model *)

\* largest amount a caller passes to deposit / withdraw / freeze / unfreeze
MaxAmount == 1
\* longest sequence of calls a behaviour makes on a ledger or a guard
MaxCalls == 6
\* number of distinct trade ids offered to the guards
NumTradeIds == 3
\* idempotency_cache_size passed to the guards' constructors
IdempotencyCacheSize == 2

Users == {"alice", "bob"}
Assets == {"BTC", "USDT"}
\* MarketPair::new("BTC", "USDT")
Market == [base |-> "BTC", quote |-> "USDT"]
Keys == Users \X Assets
Amounts == {0 - 1} \cup (0 .. MaxAmount)
Phases == {"Collect", "Match", "Settle"}

-----------------------------------------------------------------------------
(* Identifiers *)

\* TradeId::deterministic: a hash of (epoch_id, fill_sequence), modelled as
\* the pair itself (SHA-256 taken to be injective).
TradeIdDeterministic(epoch_id, fill_sequence) == <<epoch_id, fill_sequence>>

TradeIds == {TradeIdDeterministic(1, n) : n \in 0 .. (NumTradeIds - 1)}

-----------------------------------------------------------------------------
(* BalanceEntry and the balance maps *)

\* BalanceEntry::new
ZeroEntry == [available |-> 0, frozen |-> 0]

\* BalanceEntry::total
Total(e) == e.available + e.frozen

\* BalanceManager::get / Tier1Settler::balance: a zero entry if absent
Get(bal, k) == IF k \in DOMAIN bal THEN bal[k] ELSE ZeroEntry

\* HashMap::insert of one entry
Put(bal, k, e) == [x \in (DOMAIN bal) \cup {k} |-> IF x = k THEN e ELSE bal[x]]

\* BalanceManager::get_mut / entry().or_default(): creates a zero entry if absent
Touch(bal, k) == IF k \in DOMAIN bal THEN bal ELSE Put(bal, k, ZeroEntry)

\* what callers can observe of a balance map through get / balance
View(bal) == [k \in Keys |-> Get(bal, k)]

\* sum of available + frozen of one asset over all users
RECURSIVE SumTotals(_, _, _)
SumTotals(bal, asset, us) ==
    IF us = {} THEN 0
    ELSE LET u == CHOOSE x \in us : TRUE
         IN Total(Get(bal, <<u, asset>>)) + SumTotals(bal, asset, us \ {u})

Ret(res, bal) == [res |-> res, bal |-> bal]

-----------------------------------------------------------------------------
(* openmatch-core BalanceManager (balance_manager.rs) *)

\* BalanceManager::deposit
BM_deposit(bal, u, a, x) ==
    IF x <= 0 THEN Ret("InvalidOrder", bal)
    ELSE LET b == Touch(bal, <<u, a>>)
         IN Ret("Ok", [b EXCEPT ![<<u, a>>].available = @ + x])

\* A faulty withdraw that, when the caller's own available balance is short,
\* debits another holder of the asset: C23 must tell it from the code.
BM_withdraw_from_pool(bal, u, a, x) ==
    IF x <= 0 THEN Ret("InvalidOrder", bal)
    ELSE LET b == Touch(bal, <<u, a>>)
             donors == {k \in DOMAIN b : k[2] = a /\ b[k].available >= x}
         IN IF donors = {} THEN Ret("InsufficientBalance", b)
            ELSE LET k == IF <<u, a>> \in donors THEN <<u, a>>
                          ELSE CHOOSE d \in donors : TRUE
                 IN Ret("Ok", [b EXCEPT ![k].available = @ - x])

\* BalanceManager::withdraw
BM_withdraw(bal, u, a, x) ==
    IF x <= 0 THEN Ret("InvalidOrder", bal)
    ELSE LET b == Touch(bal, <<u, a>>)
         IN IF b[<<u, a>>].available < x THEN Ret("InsufficientBalance", b)
            ELSE Ret("Ok", [b EXCEPT ![<<u, a>>].available = @ - x])

\* BalanceManager::freeze
BM_freeze(bal, u, a, x) ==
    IF x <= 0 THEN Ret("InvalidOrder", bal)
    ELSE LET b == Touch(bal, <<u, a>>)
         IN IF b[<<u, a>>].available < x THEN Ret("InsufficientBalance", b)
            ELSE Ret("Ok", [b EXCEPT ![<<u, a>>].available = @ - x,
                                     ![<<u, a>>].frozen = @ + x])

\* BalanceManager::unfreeze
BM_unfreeze(bal, u, a, x) ==
    IF x <= 0 THEN Ret("InvalidOrder", bal)
    ELSE LET b == Touch(bal, <<u, a>>)
         IN IF b[<<u, a>>].frozen < x THEN Ret("InsufficientFrozen", b)
            ELSE Ret("Ok", [b EXCEPT ![<<u, a>>].frozen = @ - x,
                                     ![<<u, a>>].available = @ + x])

\* A faulty buyer selection that always takes the taker as the buyer: C22 must
\* tell it from the code.
BuyerOf_always_taker(t) == t.taker_user_id

\* the (buyer, seller) of a trade: the taker buys when taker_side = Buy
BuyerOf(t) == IF t.taker_side = "Buy" THEN t.taker_user_id ELSE t.maker_user_id
SellerOf(t) == IF t.taker_side = "Buy" THEN t.maker_user_id ELSE t.taker_user_id

\* BalanceManager::settle_trade: the four steps in the order of the code, each
\* frozen check returning early with the steps before it already applied
BM_settle_trade(bal, t, market) ==
    LET bq == <<BuyerOf(t), market.quote>>
        bb == <<BuyerOf(t), market.base>>
        sb == <<SellerOf(t), market.base>>
        sq == <<SellerOf(t), market.quote>>
        b0 == Touch(bal, bq)
    IN IF b0[bq].frozen < t.quote_amount THEN Ret("InsufficientFrozen", b0)
       ELSE LET b1 == [b0 EXCEPT ![bq].frozen = @ - t.quote_amount]
                b2 == [Touch(b1, bb) EXCEPT ![bb].available = @ + t.quantity]
                b3 == Touch(b2, sb)
            IN IF b3[sb].frozen < t.quantity THEN Ret("InsufficientFrozen", b3)
               ELSE LET b4 == [b3 EXCEPT ![sb].frozen = @ - t.quantity]
                        b5 == [Touch(b4, sq) EXCEPT
                                  ![sq].available = @ + t.quote_amount]
                    IN Ret("Ok", b5)

-----------------------------------------------------------------------------
(* Idempotency guards *)

GRet(res, s, o) == [res |-> res, settled |-> s, order |-> o]

\* VecDeque::pop_front on the guard, removing the popped id from the set
EvictOldest(s, o) ==
    IF Len(o) > 0 THEN [settled |-> s \ {Head(o)}, order |-> Tail(o)]
    ELSE [settled |-> s, order |-> o]

\* A faulty mark_settled that evicts the id inserted last instead of the
\* oldest: C37 must tell it from the code.
SIG_mark_settled_evict_newest(s, o, max_size, trade_id) ==
    IF trade_id \in s THEN GRet("TradeAlreadySettled", s, o)
    ELSE LET e == IF Cardinality(s) >= max_size /\ Len(o) > 0
                  THEN [settled |-> s \ {o[Len(o)]},
                        order |-> SubSeq(o, 1, Len(o) - 1)]
                  ELSE [settled |-> s, order |-> o]
         IN GRet("Ok", e.settled \cup {trade_id}, Append(e.order, trade_id))

\* openmatch-core SettlementIdempotencyGuard::mark_settled
SIG_mark_settled(s, o, max_size, trade_id) ==
    IF trade_id \in s THEN GRet("TradeAlreadySettled", s, o)
    ELSE LET e == IF Cardinality(s) >= max_size THEN EvictOldest(s, o)
                  ELSE [settled |-> s, order |-> o]
         IN GRet("Ok", e.settled \cup {trade_id}, Append(e.order, trade_id))

\* A faulty mark_settled that evicts only above capacity, so that it holds
\* max_size + 1 ids: C4 must tell it from the code.
IG_mark_settled_evict_late(s, o, max_size, trade_id) ==
    IF trade_id \in s THEN GRet("TradeAlreadySettled", s, o)
    ELSE LET e == IF Cardinality(s) > max_size THEN EvictOldest(s, o)
                  ELSE [settled |-> s, order |-> o]
         IN GRet("Ok", e.settled \cup {trade_id}, Append(e.order, trade_id))

\* openmatch-settlement IdempotencyGuard::mark_settled
IG_mark_settled(s, o, max_size, trade_id) ==
    IF trade_id \in s THEN GRet("TradeAlreadySettled", s, o)
    ELSE LET e == IF Cardinality(s) >= max_size THEN EvictOldest(s, o)
                  ELSE [settled |-> s, order |-> o]
         IN GRet("Ok", e.settled \cup {trade_id}, Append(e.order, trade_id))

-----------------------------------------------------------------------------
(* openmatch-core WithdrawLock and SupplyConservation (security.rs) *)

\* WithdrawLock::check_withdraw_allowed
check_withdraw_allowed(phase, emergency) ==
    IF emergency THEN "WithdrawLockedDuringSettle"
    ELSE IF phase = "Collect" THEN "Ok"
    ELSE "WithdrawLockedDuringSettle"

\* SupplyConservation::record_deposit / record_withdrawal (both crates)
Record(totals, asset, amount) == [totals EXCEPT ![asset] = @ + amount]

\* SupplyConservation::verify: every asset seen in any of the three maps,
\* expected = deposited - withdrawn against actual (zero if absent)
SC_verify(deposits, withdrawals, actual_totals) ==
    IF \A a \in Assets :
          deposits[a] - withdrawals[a] =
             (IF a \in DOMAIN actual_totals THEN actual_totals[a] ELSE 0)
    THEN "Ok" ELSE "SupplyInvariantViolation"

\* SecuredBalanceManager::compute_actual_totals: the code never iterates the
\* balances and returns the empty map
compute_actual_totals(bal) == <<>>

\* SecuredBalanceManager::verify_supply_conservation
verify_supply_conservation(bal, deposits, withdrawals) ==
    SC_verify(deposits, withdrawals, compute_actual_totals(bal))

\* the trades callers hand to settle_trade: two different users, either
\* taker side, positive quantity and quote amount
Trades ==
    {t \in [id : TradeIds, taker_user_id : Users, maker_user_id : Users,
            quantity : 1 .. MaxAmount, quote_amount : 1 .. MaxAmount,
            taker_side : {"Buy", "Sell"}] :
        t.taker_user_id # t.maker_user_id}

Call(op, res) == [op |-> op, res |-> res]

-----------------------------------------------------------------------------
(* openmatch-core SecuredBalanceManager (security.rs) *)

SRet(res, bal, s, o) == [res |-> res, bal |-> bal, settled |-> s, order |-> o]

\* A faulty settle_trade that moves the balances before it asks the guard:
\* C5 must tell it from the code.
SBM_settle_trade_transfer_first(bal, s, o, max_size, t, market) ==
    LET r == BM_settle_trade(bal, t, market)
        g == SIG_mark_settled(s, o, max_size, t.id)
    IN IF g.res # "Ok" THEN SRet(g.res, r.bal, s, o)
       ELSE SRet(r.res, r.bal, g.settled, g.order)

\* SecuredBalanceManager::settle_trade: mark_settled first, then the inner
\* settle_trade; `?` returns the first error
SBM_settle_trade(bal, s, o, max_size, t, market) ==
    LET g == SIG_mark_settled(s, o, max_size, t.id)
    IN IF g.res # "Ok" THEN SRet(g.res, bal, s, o)
       ELSE LET r == BM_settle_trade(bal, t, market)
            IN SRet(r.res, r.bal, g.settled, g.order)

\* SecuredBalanceManager::deposit
SecuredDeposit(u, a, x) ==
    /\ sut = "core"
    /\ LET r == BM_deposit(balances, u, a, x)
       IN /\ calls < MaxCalls
          /\ balances' = r.bal
          /\ total_deposits' =
                IF r.res = "Ok" THEN Record(total_deposits, a, x) ELSE total_deposits
          /\ ops_count' = IF r.res = "Ok" THEN ops_count + 1 ELSE ops_count
          /\ last' = Call("deposit", r.res)
    /\ UNCHANGED <<sut, settled, order, current_phase, emergency_lock,
                   total_withdrawals, marked_log, settled_ok>>
    /\ calls' = calls + 1
    /\ UNCHANGED <<matchVars, serviceVars>>

\* SecuredBalanceManager::withdraw
SecuredWithdraw(u, a, x) ==
    /\ sut = "core"
    /\ LET lock == check_withdraw_allowed(current_phase, emergency_lock)
           r == IF lock # "Ok" THEN Ret(lock, balances)
                ELSE BM_withdraw(balances, u, a, x)
       IN /\ calls < MaxCalls
          /\ balances' = r.bal
          /\ total_withdrawals' =
                IF r.res = "Ok" THEN Record(total_withdrawals, a, x)
                ELSE total_withdrawals
          /\ ops_count' = IF r.res = "Ok" THEN ops_count + 1 ELSE ops_count
          /\ last' = Call("withdraw", r.res)
    /\ UNCHANGED <<sut, settled, order, current_phase, emergency_lock,
                   total_deposits, marked_log, settled_ok>>
    /\ calls' = calls + 1
    /\ UNCHANGED <<matchVars, serviceVars>>

\* SecuredBalanceManager::freeze
SecuredFreeze(u, a, x) ==
    /\ sut = "core"
    /\ LET r == BM_freeze(balances, u, a, x)
       IN /\ calls < MaxCalls
          /\ balances' = r.bal
          /\ ops_count' = IF r.res = "Ok" THEN ops_count + 1 ELSE ops_count
          /\ last' = Call("freeze", r.res)
    /\ UNCHANGED <<sut, settled, order, current_phase, emergency_lock,
                   total_deposits, total_withdrawals, marked_log, settled_ok>>
    /\ calls' = calls + 1
    /\ UNCHANGED <<matchVars, serviceVars>>

\* SecuredBalanceManager::unfreeze
SecuredUnfreeze(u, a, x) ==
    /\ sut = "core"
    /\ LET r == BM_unfreeze(balances, u, a, x)
       IN /\ calls < MaxCalls
          /\ balances' = r.bal
          /\ ops_count' = IF r.res = "Ok" THEN ops_count + 1 ELSE ops_count
          /\ last' = Call("unfreeze", r.res)
    /\ UNCHANGED <<sut, settled, order, current_phase, emergency_lock,
                   total_deposits, total_withdrawals, marked_log, settled_ok>>
    /\ calls' = calls + 1
    /\ UNCHANGED <<matchVars, serviceVars>>

\* SecuredBalanceManager::settle_trade
SecuredSettleTrade(t) ==
    /\ sut = "core"
    /\ LET r == SBM_settle_trade(balances, settled, order,
                                 IdempotencyCacheSize, t, Market)
       IN /\ calls < MaxCalls
          /\ balances' = r.bal
          /\ settled' = r.settled
          /\ order' = r.order
          /\ ops_count' = IF r.res = "Ok" THEN ops_count + 1 ELSE ops_count
          /\ last' = Call("settle_trade", r.res)
          /\ settled_ok' = IF r.res = "Ok" THEN settled_ok \cup {t.id} ELSE settled_ok
    /\ UNCHANGED <<sut, current_phase, emergency_lock, total_deposits,
                   total_withdrawals, marked_log>>
    /\ calls' = calls + 1
    /\ UNCHANGED <<matchVars, serviceVars>>

\* SecuredBalanceManager::set_phase
SecuredSetPhase(phase) ==
    /\ sut = "core"
    /\ calls < MaxCalls
    /\ current_phase' = phase
    /\ last' = Call("set_phase", "Ok")
    /\ UNCHANGED <<sut, balances, settled, order, emergency_lock,
                   total_deposits, total_withdrawals, ops_count, marked_log, settled_ok>>
    /\ calls' = calls + 1
    /\ UNCHANGED <<matchVars, serviceVars>>

\* SecuredBalanceManager::set_emergency_lock
SecuredSetEmergencyLock(locked) ==
    /\ sut = "core"
    /\ calls < MaxCalls
    /\ emergency_lock' = locked
    /\ last' = Call("set_emergency_lock", "Ok")
    /\ UNCHANGED <<sut, balances, settled, order, current_phase,
                   total_deposits, total_withdrawals, ops_count, marked_log, settled_ok>>
    /\ calls' = calls + 1
    /\ UNCHANGED <<matchVars, serviceVars>>

-----------------------------------------------------------------------------
(* openmatch-settlement Tier1Settler (tier1.rs) *)

\* Tier1Settler::deposit, the balance part: no check on the amount
T1_deposit(bal, u, a, x) ==
    LET b == Touch(bal, <<u, a>>)
    IN Ret("Ok", [b EXCEPT ![<<u, a>>].available = @ + x])

\* A faulty freeze that takes the amount from available and adds only one unit
\* less to frozen: C34 must tell it from the code.
T1_freeze_short(bal, u, a, x) ==
    IF <<u, a>> \notin DOMAIN bal THEN Ret("InsufficientBalance", bal)
    ELSE IF bal[<<u, a>>].available < x THEN Ret("InsufficientBalance", bal)
    ELSE Ret("Ok", [bal EXCEPT ![<<u, a>>].available = @ - x,
                               ![<<u, a>>].frozen = @ + x - 1])

\* Tier1Settler::freeze: an absent entry is InsufficientBalance; no check
\* that the amount is positive
T1_freeze(bal, u, a, x) ==
    IF <<u, a>> \notin DOMAIN bal THEN Ret("InsufficientBalance", bal)
    ELSE IF bal[<<u, a>>].available < x THEN Ret("InsufficientBalance", bal)
    ELSE Ret("Ok", [bal EXCEPT ![<<u, a>>].available = @ - x,
                               ![<<u, a>>].frozen = @ + x])

\* Tier1Settler::settle_trade: mark_settled, then base (seller frozen ->
\* buyer available), then quote (buyer frozen -> seller available); every
\* `?` and early return keeps what was applied before it
T1_settle_trade(bal, s, o, max_size, t) ==
    LET g == IG_mark_settled(s, o, max_size, t.id)
        bq == <<BuyerOf(t), Market.quote>>
        bb == <<BuyerOf(t), Market.base>>
        sb == <<SellerOf(t), Market.base>>
        sq == <<SellerOf(t), Market.quote>>
    IN IF g.res # "Ok" THEN SRet(g.res, bal, s, o)
       ELSE IF sb \notin DOMAIN bal \/ Get(bal, sb).frozen < t.quantity
       THEN SRet("InsufficientFrozen", bal, g.settled, g.order)
       ELSE LET b1 == [bal EXCEPT ![sb].frozen = @ - t.quantity]
                b2 == [Touch(b1, bb) EXCEPT ![bb].available = @ + t.quantity]
            IN IF bq \notin DOMAIN b2 \/ Get(b2, bq).frozen < t.quote_amount
               THEN SRet("InsufficientFrozen", b2, g.settled, g.order)
               ELSE LET b3 == [b2 EXCEPT ![bq].frozen = @ - t.quote_amount]
                        b4 == [Touch(b3, sq) EXCEPT
                                  ![sq].available = @ + t.quote_amount]
                    IN SRet("Ok", b4, g.settled, g.order)

\* Tier1Settler::deposit
Tier1Deposit(u, a, x) ==
    /\ sut = "tier1"
    /\ LET r == T1_deposit(balances, u, a, x)
       IN /\ calls < MaxCalls
          /\ balances' = r.bal
          /\ total_deposits' = Record(total_deposits, a, x)
          /\ last' = Call("deposit", r.res)
    /\ UNCHANGED <<sut, settled, order, current_phase, emergency_lock,
                   total_withdrawals, ops_count, marked_log, settled_ok>>
    /\ calls' = calls + 1
    /\ UNCHANGED <<matchVars, serviceVars>>

\* Tier1Settler::freeze
Tier1Freeze(u, a, x) ==
    /\ sut = "tier1"
    /\ LET r == T1_freeze(balances, u, a, x)
       IN /\ calls < MaxCalls
          /\ balances' = r.bal
          /\ last' = Call("freeze", r.res)
    /\ UNCHANGED <<sut, settled, order, current_phase, emergency_lock,
                   total_deposits, total_withdrawals, ops_count, marked_log, settled_ok>>
    /\ calls' = calls + 1
    /\ UNCHANGED <<matchVars, serviceVars>>

\* Tier1Settler::settle_trade
Tier1SettleTrade(t) ==
    /\ sut = "tier1"
    /\ LET r == T1_settle_trade(balances, settled, order, IdempotencyCacheSize, t)
       IN /\ calls < MaxCalls
          /\ balances' = r.bal
          /\ settled' = r.settled
          /\ order' = r.order
          /\ last' = Call("settle_trade", r.res)
          /\ settled_ok' = IF r.res = "Ok" THEN settled_ok \cup {t.id} ELSE settled_ok
    /\ UNCHANGED <<sut, current_phase, emergency_lock, total_deposits,
                   total_withdrawals, ops_count, marked_log>>
    /\ calls' = calls + 1
    /\ UNCHANGED <<matchVars, serviceVars>>

-----------------------------------------------------------------------------
(* openmatch-ingress BalanceManager (balance_manager.rs) *)

\* BalanceManager::deposit: no check on the amount
IBM_deposit(bal, u, a, x) ==
    LET b == Touch(bal, <<u, a>>)
    IN Ret("Ok", [b EXCEPT ![<<u, a>>].available = @ + x])

\* BalanceManager::freeze
IBM_freeze(bal, u, a, x) ==
    IF <<u, a>> \notin DOMAIN bal THEN Ret("InsufficientBalance", bal)
    ELSE IF bal[<<u, a>>].available < x THEN Ret("InsufficientBalance", bal)
    ELSE Ret("Ok", [bal EXCEPT ![<<u, a>>].available = @ - x,
                               ![<<u, a>>].frozen = @ + x])

\* BalanceManager::unfreeze
IBM_unfreeze(bal, u, a, x) ==
    IF <<u, a>> \notin DOMAIN bal THEN Ret("InsufficientFrozen", bal)
    ELSE IF bal[<<u, a>>].frozen < x THEN Ret("InsufficientFrozen", bal)
    ELSE Ret("Ok", [bal EXCEPT ![<<u, a>>].frozen = @ - x,
                               ![<<u, a>>].available = @ + x])

\* BalanceManager::consume_frozen
IBM_consume_frozen(bal, u, a, x) ==
    IF <<u, a>> \notin DOMAIN bal THEN Ret("InsufficientFrozen", bal)
    ELSE IF bal[<<u, a>>].frozen < x THEN Ret("InsufficientFrozen", bal)
    ELSE Ret("Ok", [bal EXCEPT ![<<u, a>>].frozen = @ - x])

\* BalanceManager::credit
IBM_credit(bal, u, a, x) ==
    LET b == Touch(bal, <<u, a>>)
    IN Ret("Ok", [b EXCEPT ![<<u, a>>].available = @ + x])

\* a call of one of the ingress BalanceManager's five operations
IngressCall(op, u, a, x) ==
    /\ sut = "ingress"
    /\ LET r == CASE op = "deposit" -> IBM_deposit(balances, u, a, x)
                  [] op = "freeze" -> IBM_freeze(balances, u, a, x)
                  [] op = "unfreeze" -> IBM_unfreeze(balances, u, a, x)
                  [] op = "consume_frozen" -> IBM_consume_frozen(balances, u, a, x)
                  [] op = "credit" -> IBM_credit(balances, u, a, x)
       IN /\ calls < MaxCalls
          /\ balances' = r.bal
          /\ last' = Call(op, r.res)
    /\ UNCHANGED <<sut, settled, order, current_phase, emergency_lock,
                   total_deposits, total_withdrawals, ops_count, marked_log, settled_ok>>
    /\ calls' = calls + 1
    /\ UNCHANGED <<matchVars, serviceVars>>

IngressOps == {"deposit", "freeze", "unfreeze", "consume_frozen", "credit"}

-----------------------------------------------------------------------------
(* Orders, prices and hashes (openmatch-types) *)

\* Option<T>: None is the empty set, Some(x) the singleton
None == {}
Some(x) == {x}
Unwrap(opt) == CHOOSE v \in opt : TRUE

\* Decimal::MAX, the effective price of a market buy.  Prices count half
\* ticks; the model stands a large even number for 2^96 - 1 ticks.
DecimalMax == 1000000

\* largest limit price, in ticks
MaxTicks == 2
\* largest order quantity
MaxQty == 2
\* MAX_ORDERS_PER_BATCH / with_capacity(max_orders): capacity of a buffer
MaxOrders == 3
\* number of nodes / matching runs on the same input
MaxRuns == 2

\* limit prices: whole ticks, counted in half ticks
Prices == {2 * t : t \in 1 .. MaxTicks}
Sides == {"Buy", "Sell"}

\* BatchId / EpochId of the batch being collected
TheBatchId == 100

\* the orders callers submit: limit orders at a price, market orders, cancels
OrderShapes ==
    [user_id : Users, side : Sides, order_type : {"Limit"},
     price : {Some(p) : p \in Prices}, quantity : 1 .. MaxQty]
    \cup [user_id : Users, side : Sides, order_type : {"Market"},
          price : {None}, quantity : 1 .. MaxQty]
    \cup [user_id : {"alice"}, side : Sides, order_type : {"Cancel"},
          price : {None}, quantity : {1}]

\* an Order as its submitter builds it: the k-th order of the batch gets a
\* fresh id and spend right, and the sequence number seq
NewOrder(shape, k, seq) ==
    [id |-> k, user_id |-> shape.user_id, side |-> shape.side,
     order_type |-> shape.order_type, price |-> shape.price,
     quantity |-> shape.quantity, remaining_qty |-> shape.quantity,
     sr_id |-> k, epoch_id |-> None, sequence |-> seq]

\* Order::effective_price
effective_price(o) ==
    CASE o.order_type = "Limit" -> IF o.price = None THEN 0 ELSE Unwrap(o.price)
      [] o.order_type = "Market" /\ o.side = "Buy" -> DecimalMax
      [] OTHER -> 0

Min(a, b) == IF a <= b THEN a ELSE b
Abs(a) == IF a < 0 THEN 0 - a ELSE a

\* Vec::sort_by (a stable sort) under the strict order Before
SortBy(s, Before(_, _)) ==
    LET Pos(i) == 1 + Cardinality({j \in 1 .. Len(s) :
                        \/ Before(s[j], s[i])
                        \/ (~Before(s[i], s[j]) /\ j < i)})
    IN [p \in 1 .. Len(s) |-> s[CHOOSE i \in 1 .. Len(s) : Pos(i) = p]]

\* the elements of a sequence
Range(s) == {s[i] : i \in 1 .. Len(s)}

\* Iterator::sum of remaining_qty
RECURSIVE SumQty(_)
SumQty(s) == IF s = <<>> THEN 0 ELSE Head(s).remaining_qty + SumQty(Tail(s))

\* Decimal::to_string / u64 as bytes: the decimal digits of a natural number
RECURSIVE to_string(_)
to_string(n) == IF n < 10 THEN <<n>> ELSE to_string(n \div 10) \o <<n % 10>>

\* a fixed-width field fed to the hasher: one token
Field(tag, v) == <<<<tag, v>>>>

\* Sha256 over the bytes fed to it, taken to be injective: the hash is the
\* sequence of tokens itself
RECURSIVE Concat(_)
Concat(ss) == IF ss = <<>> THEN <<>> ELSE Head(ss) \o Concat(Tail(ss))
Sha256(domain_sep, tokens) == <<domain_sep>> \o tokens

-----------------------------------------------------------------------------
(* openmatch-core PendingBuffer (pending_buffer.rs) *)

\* PendingBuffer::new
PB_new(batch_id) ==
    [orders |-> <<>>, sequence_counter |-> 0, sealed |-> FALSE,
     batch_hash |-> None, batch_id |-> batch_id]

\* a push that takes a sequence number before it finds the buffer full
PB_push_burns_sequence(buf, o) ==
    IF buf.sealed THEN [res |-> "BufferAlreadySealed", buf |-> buf]
    ELSE IF Len(buf.orders) >= MaxOrders
    THEN [res |-> "BufferFull", buf |-> [buf EXCEPT !.sequence_counter = @ + 1]]
    ELSE LET seq == buf.sequence_counter
             stored == [o EXCEPT !.sequence = seq, !.epoch_id = Some(buf.batch_id)]
         IN [res |-> "Ok", seq |-> seq,
             buf |-> [buf EXCEPT !.sequence_counter = @ + 1,
                                 !.orders = Append(@, stored)]]

\* PendingBuffer::push
PB_push(buf, o) ==
    IF buf.sealed THEN [res |-> "BufferAlreadySealed", buf |-> buf]
    ELSE IF Len(buf.orders) >= MaxOrders THEN [res |-> "BufferFull", buf |-> buf]
    ELSE LET seq == buf.sequence_counter
             stored == [o EXCEPT !.sequence = seq, !.epoch_id = Some(buf.batch_id)]
         IN [res |-> "Ok", seq |-> seq,
             buf |-> [buf EXCEPT !.sequence_counter = @ + 1,
                                 !.orders = Append(@, stored)]]

\* the comparator of PendingBuffer::seal: Buy before Sell, then price
\* priority (buys descending, sells ascending), then sequence
SealBefore(a, b) ==
    IF a.side # b.side THEN a.side = "Buy"
    ELSE IF effective_price(a) # effective_price(b)
    THEN (IF a.side = "Buy" THEN effective_price(a) > effective_price(b)
          ELSE effective_price(a) < effective_price(b))
    ELSE a.sequence < b.sequence

\* the bytes PendingBuffer::seal feeds to the hasher for one order
SealOrderBytes(o) ==
    Field("order_id", o.id) \o Field("u64", o.sequence)
    \o to_string(effective_price(o)) \o to_string(o.remaining_qty)
    \o Field("u8", IF o.side = "Buy" THEN 0 ELSE 1)

\* a seal that may be repeated
PB_seal_repeatable(buf) ==
    LET sorted == SortBy(buf.orders, SealBefore)
        hash == Sha256("openmatch:batch:v1:",
                   Field("u64", buf.batch_id) \o Field("u64", Len(sorted))
                   \o Concat([i \in 1 .. Len(sorted) |-> SealOrderBytes(sorted[i])]))
    IN [res |-> "Ok", hash |-> hash,
        buf |-> [buf EXCEPT !.orders = sorted, !.sealed = TRUE,
                            !.batch_hash = Some(hash)]]

\* PendingBuffer::seal
PB_seal(buf) ==
    IF buf.sealed THEN [res |-> "BufferAlreadySealed", buf |-> buf]
    ELSE LET sorted == SortBy(buf.orders, SealBefore)
             hash == Sha256("openmatch:batch:v1:",
                        Field("u64", buf.batch_id) \o Field("u64", Len(sorted))
                        \o Concat([i \in 1 .. Len(sorted) |-> SealOrderBytes(sorted[i])]))
         IN [res |-> "Ok", hash |-> hash,
             buf |-> [buf EXCEPT !.orders = sorted, !.sealed = TRUE,
                                 !.batch_hash = Some(hash)]]

\* PendingBuffer::take_orders
PB_take_orders(buf) ==
    IF ~buf.sealed THEN [res |-> "MatchingFailed"]
    ELSE [res |-> "Ok", orders |-> buf.orders, hash |-> Unwrap(buf.batch_hash)]

-----------------------------------------------------------------------------
(* openmatch-core clearing price (clearing.rs) *)

\* demand at p: quantity of the buys willing to pay >= p
Demand(buys, p) ==
    LET Willing(b) == effective_price(b) >= p IN SumQty(SelectSeq(buys, Willing))

\* supply at p: quantity of the sells willing to sell <= p
Supply(sells, p) ==
    LET Willing(s) == effective_price(s) <= p IN SumQty(SelectSeq(sells, Willing))

\* price_set: the distinct effective prices of both sides, Decimal::MAX left out
PriceSet(buys, sells) ==
    {effective_price(o) : o \in Range(buys) \cup Range(sells)} \ {DecimalMax}

\* is_better with a preference for the lower price on a full tie
is_better_lower_price(candidate, best) ==
    IF best = None THEN TRUE
    ELSE LET current == Unwrap(best)
             new_imbalance == Abs(candidate.demand - candidate.supply)
             cur_imbalance == Abs(current.demand - current.supply)
         IN IF candidate.volume > current.volume THEN TRUE
            ELSE IF candidate.volume = current.volume
            THEN (IF new_imbalance < cur_imbalance THEN TRUE
                  ELSE IF new_imbalance = cur_imbalance
                  THEN candidate.price < current.price
                  ELSE FALSE)
            ELSE FALSE

\* is_better: larger volume, then smaller imbalance, then higher price
is_better(candidate, best) ==
    IF best = None THEN TRUE
    ELSE LET current == Unwrap(best)
             new_imbalance == Abs(candidate.demand - candidate.supply)
             cur_imbalance == Abs(current.demand - current.supply)
         IN IF candidate.volume > current.volume THEN TRUE
            ELSE IF candidate.volume = current.volume
            THEN (IF new_imbalance < cur_imbalance THEN TRUE
                  ELSE IF new_imbalance = cur_imbalance
                  THEN candidate.price > current.price
                  ELSE FALSE)
            ELSE FALSE

\* the loop of compute_clearing_price over the candidate prices left, in
\* ascending order (BTreeSet iteration)
RECURSIVE ClearingScan(_, _, _, _)
ClearingScan(buys, sells, left, best) ==
    IF left = {} THEN best
    ELSE LET p == CHOOSE x \in left : \A y \in left : x <= y
             demand == Demand(buys, p)
             supply == Supply(sells, p)
             matchable == Min(demand, supply)
             candidate == [price |-> p, volume |-> matchable,
                           demand |-> demand, supply |-> supply]
         IN IF matchable = 0 THEN ClearingScan(buys, sells, left \ {p}, best)
            ELSE IF is_better(candidate, best)
            THEN ClearingScan(buys, sells, left \ {p}, Some(candidate))
            ELSE ClearingScan(buys, sells, left \ {p}, best)

\* a compute_clearing_price that falls back on the best bid when no price
\* has matchable volume
core_compute_clearing_price_uncrossed(buys, sells) ==
    IF buys = <<>> \/ sells = <<>> THEN None
    ELSE LET scan == ClearingScan(buys, sells, PriceSet(buys, sells), None)
         IN IF scan = None
            THEN Some([price |-> effective_price(buys[1]), volume |-> 0,
                       demand |-> 0, supply |-> 0])
            ELSE scan

\* clearing::compute_clearing_price(buys, sells) -> Option<ClearingResult>
core_compute_clearing_price(buys, sells) ==
    IF buys = <<>> \/ sells = <<>> THEN None
    ELSE IF PriceSet(buys, sells) = {} THEN None
    ELSE ClearingScan(buys, sells, PriceSet(buys, sells), None)

-----------------------------------------------------------------------------
(* openmatch-core BatchMatcher (batch_matcher.rs) *)

\* Decimal::checked_mul
checked_mul(a, b) == IF a * b > DecimalMax THEN None ELSE Some(a * b)

\* the same-user test of match_batch
CoreSelfTrade(buy, sell) == buy.user_id = sell.user_id

\* a Trade that carries the buy order's whole quantity instead of the fill
CoreTrade_whole_order(buy, sell, cp, fill_qty, batch_id, fill_sequence, node_id, at) ==
    LET product == checked_mul(cp, fill_qty)
    IN [id |-> TradeIdDeterministic(batch_id, fill_sequence),
        epoch_id |-> batch_id,
        taker_order_id |-> buy.id, taker_user_id |-> buy.user_id,
        maker_order_id |-> sell.id, maker_user_id |-> sell.user_id,
        price |-> cp, quantity |-> buy.quantity,
        quote_amount |-> IF product = None THEN DecimalMax ELSE Unwrap(product),
        taker_side |-> "Buy", matcher_node |-> node_id, executed_at |-> at]

\* a Trade priced at what the buyer bid instead of the clearing price
CoreTrade_pay_as_bid(buy, sell, cp, fill_qty, batch_id, fill_sequence, node_id, at) ==
    LET product == checked_mul(effective_price(buy), fill_qty)
    IN [id |-> TradeIdDeterministic(batch_id, fill_sequence),
        epoch_id |-> batch_id,
        taker_order_id |-> buy.id, taker_user_id |-> buy.user_id,
        maker_order_id |-> sell.id, maker_user_id |-> sell.user_id,
        price |-> effective_price(buy), quantity |-> fill_qty,
        quote_amount |-> IF product = None THEN DecimalMax ELSE Unwrap(product),
        taker_side |-> "Buy", matcher_node |-> node_id, executed_at |-> at]

\* a Trade whose id is derived from the matcher's node as well: C35 must tell
\* it from the code
CoreTrade_node_in_id(buy, sell, cp, fill_qty, batch_id, fill_sequence, node_id, at) ==
    LET product == checked_mul(cp, fill_qty)
    IN [id |-> TradeIdDeterministic(batch_id + node_id, fill_sequence),
        epoch_id |-> batch_id,
        taker_order_id |-> buy.id, taker_user_id |-> buy.user_id,
        maker_order_id |-> sell.id, maker_user_id |-> sell.user_id,
        price |-> cp, quantity |-> fill_qty,
        quote_amount |-> IF product = None THEN DecimalMax ELSE Unwrap(product),
        taker_side |-> "Buy", matcher_node |-> node_id, executed_at |-> at]

\* the Trade match_batch builds for one fill
CoreTrade(buy, sell, cp, fill_qty, batch_id, fill_sequence, node_id, at) ==
    LET product == checked_mul(cp, fill_qty)
    IN [id |-> TradeIdDeterministic(batch_id, fill_sequence),
        epoch_id |-> batch_id,
        taker_order_id |-> buy.id, taker_user_id |-> buy.user_id,
        maker_order_id |-> sell.id, maker_user_id |-> sell.user_id,
        price |-> cp, quantity |-> fill_qty,
        quote_amount |-> IF product = None THEN DecimalMax ELSE Unwrap(product),
        taker_side |-> "Buy", matcher_node |-> node_id, executed_at |-> at]

\* the fill loops of match_batch; st holds buys, sells, the index bi of the
\* buy of the for loop, sell_idx (both counted from 1), fill_sequence and
\* the trades emitted so far
RECURSIVE CoreFill(_, _, _, _, _)
CoreFill(st, cp, batch_id, node_id, at) ==
    IF st.bi > Len(st.buys) THEN st
    ELSE LET buy == st.buys[st.bi]
             NextBuy == CoreFill([st EXCEPT !.bi = @ + 1], cp, batch_id, node_id, at)
             NextSell == CoreFill([st EXCEPT !.sell_idx = @ + 1],
                                  cp, batch_id, node_id, at)
         IN IF buy.remaining_qty = 0 THEN NextBuy
            ELSE IF effective_price(buy) < cp THEN st
            ELSE IF st.sell_idx > Len(st.sells) THEN NextBuy
            ELSE LET sell == st.sells[st.sell_idx]
                 IN IF effective_price(sell) > cp THEN NextBuy
                    ELSE IF sell.remaining_qty = 0 THEN NextSell
                    ELSE IF CoreSelfTrade(buy, sell) THEN NextSell
                    ELSE LET fill_qty == Min(buy.remaining_qty, sell.remaining_qty)
                             trade == CoreTrade(buy, sell, cp, fill_qty, batch_id,
                                                st.fill_sequence, node_id, at)
                         IN CoreFill(
                               [st EXCEPT
                                  !.buys[st.bi].remaining_qty = @ - fill_qty,
                                  !.sells[st.sell_idx].remaining_qty = @ - fill_qty,
                                  !.fill_sequence = @ + 1,
                                  !.trades = Append(@, trade),
                                  !.sell_idx =
                                     IF sell.remaining_qty - fill_qty = 0
                                     THEN @ + 1 ELSE @],
                               cp, batch_id, node_id, at)

\* the bytes compute_result_hash feeds to the hasher for one trade, with the
\* matcher's node id added to them
ResultTradeBytes_with_node(t) ==
    Field("trade_id", t.id) \o to_string(t.price) \o to_string(t.quantity)
    \o Field("order_id", t.taker_order_id) \o Field("order_id", t.maker_order_id)
    \o Field("node_id", t.matcher_node)

\* the bytes compute_result_hash feeds to the hasher for one trade
ResultTradeBytes(t) ==
    Field("trade_id", t.id) \o to_string(t.price) \o to_string(t.quantity)
    \o Field("order_id", t.taker_order_id) \o Field("order_id", t.maker_order_id)

\* BatchMatcher::compute_result_hash
compute_result_hash(batch_id, trades) ==
    Sha256("openmatch:result:v1:",
           Field("u64", batch_id) \o Field("u64", Len(trades))
           \o Concat([i \in 1 .. Len(trades) |-> ResultTradeBytes(trades[i])]))

\* buys before sells among the non-cancel orders, each side in the
\* matcher's order: price priority, then sequence
BuysBefore(a, b) ==
    IF effective_price(a) # effective_price(b)
    THEN effective_price(a) > effective_price(b)
    ELSE a.sequence < b.sequence
SellsBefore(a, b) ==
    IF effective_price(a) # effective_price(b)
    THEN effective_price(a) < effective_price(b)
    ELSE a.sequence < b.sequence

\* the partition of match_batch: the buys (sells) that are no cancels, sorted
CoreBuys(orders) ==
    LET IsBuy(o) == o.side = "Buy" /\ o.order_type # "Cancel"
    IN SortBy(SelectSeq(orders, IsBuy), BuysBefore)
CoreSells(orders) ==
    LET IsSell(o) == o.side = "Sell" /\ o.order_type # "Cancel"
    IN SortBy(SelectSeq(orders, IsSell), SellsBefore)

\* A faulty filter that keeps fully filled orders among the remaining ones:
\* C33 must tell it from the code.
HasQty_or_filled(o) == o.remaining_qty >= 0

HasQty(o) == o.remaining_qty > 0

\* BatchMatcher::match_batch on a buffer, by the matcher of node node_id, the
\* clock reading at
match_batch(node_id, buffer, at) ==
    LET taken == PB_take_orders(buffer)
    IN IF taken.res # "Ok" THEN [res |-> taken.res]
       ELSE LET buys == CoreBuys(taken.orders)
                sells == CoreSells(taken.orders)
                clearing == core_compute_clearing_price(buys, sells)
                start == [buys |-> buys, sells |-> sells, bi |-> 1, sell_idx |-> 1,
                          fill_sequence |-> 0, trades |-> <<>>]
                done == IF clearing = None THEN start
                        ELSE CoreFill(start, Unwrap(clearing).price,
                                      buffer.batch_id, node_id, at)
            IN [res |-> "Ok",
                batch_id |-> buffer.batch_id,
                trades |-> done.trades,
                result_hash |-> compute_result_hash(buffer.batch_id, done.trades),
                input_hash |-> taken.hash,
                remaining_orders |-> SelectSeq(done.buys \o done.sells, HasQty),
                clearing_price |->
                    IF clearing = None THEN None ELSE Some(Unwrap(clearing).price)]

-----------------------------------------------------------------------------
(* openmatch-ingress PendingBuffer and BatchSealer *)

\* PendingBuffer::with_capacity
IPB_new(max_orders) == [orders |-> <<>>, sealed |-> FALSE, max_orders |-> max_orders]

\* PendingBuffer::push: the order is stored as the caller built it
IPB_push(buf, o) ==
    IF buf.sealed THEN [res |-> "BufferAlreadySealed", buf |-> buf]
    ELSE IF Len(buf.orders) >= buf.max_orders THEN [res |-> "BufferFull", buf |-> buf]
    ELSE [res |-> "Ok", buf |-> [buf EXCEPT !.orders = Append(@, o)]]

\* PendingBuffer::seal
IPB_seal(buf) ==
    IF buf.sealed THEN [res |-> "BufferAlreadySealed", buf |-> buf]
    ELSE [res |-> "Ok", buf |-> [buf EXCEPT !.sealed = TRUE]]

\* PendingBuffer::drain
IPB_drain(buf) ==
    IF ~buf.sealed THEN [res |-> "InvalidOrder", buf |-> buf]
    ELSE [res |-> "Ok", orders |-> buf.orders, buf |-> [buf EXCEPT !.orders = <<>>]]

\* a comparator that leaves orders of equal sequence as they came
SequenceThenId_sequence_only(a, b) == a.sequence < b.sequence

\* the comparator of BatchSealer::seal: sequence, then order id
SequenceThenId(a, b) ==
    IF a.sequence # b.sequence THEN a.sequence < b.sequence ELSE a.id < b.id

\* the bytes compute_batch_hash feeds to the hasher for one order
BatchOrderBytes(o) ==
    Field("order_id", o.id) \o Field("user_id", o.user_id)
    \o Field("sr_id", o.sr_id)
    \o Field("u8", IF o.side = "Buy" THEN 0 ELSE 1)
    \o Field("u8", CASE o.order_type = "Limit" -> 0
                     [] o.order_type = "Market" -> 1
                     [] OTHER -> 2)
    \o (IF o.price = None THEN <<>> ELSE to_string(Unwrap(o.price)))
    \o to_string(o.quantity) \o Field("u64", o.sequence)

\* BatchSealer::compute_batch_hash
compute_batch_hash(epoch_id, orders) ==
    Sha256("openmatch:batch:v2:",
           Field("u64", epoch_id) \o Field("u64", Len(orders))
           \o Concat([i \in 1 .. Len(orders) |-> BatchOrderBytes(orders[i])]))

\* BatchSealer::seal -> SealedBatch
BatchSealer_seal(node_id, epoch_id, orders, at) ==
    LET sorted == SortBy(orders, SequenceThenId)
    IN [epoch_id |-> epoch_id, orders |-> sorted,
        batch_hash |-> compute_batch_hash(epoch_id, sorted),
        sealed_at |-> at, sealer_node |-> node_id]

-----------------------------------------------------------------------------
(* openmatch-matchcore OrderBook (orderbook.rs, price_level.rs) *)

\* OrderBook::new: bids best (highest) first, asks best (lowest) first
EmptyBook == [bids |-> <<>>, asks |-> <<>>, index |-> {}]

HigherLevel(x, y) == x.price > y.price
LowerLevel(x, y) == x.price < y.price

\* entry(price).or_insert_with(PriceLevel::new).push_back(order)
LevelPush(levels, price, o, Before(_, _)) ==
    IF \E i \in 1 .. Len(levels) : levels[i].price = price
    THEN LET i == CHOOSE j \in 1 .. Len(levels) : levels[j].price = price
         IN [levels EXCEPT ![i].orders = Append(@, o)]
    ELSE SortBy(Append(levels, [price |-> price, orders |-> <<o>>]), Before)

\* OrderBook::insert_order
insert_order(book, o) ==
    IF o.id \in book.index THEN [res |-> "DuplicateOrder", book |-> book]
    ELSE LET price == effective_price(o)
         IN [res |-> "Ok",
             book |-> IF o.side = "Buy"
                      THEN [book EXCEPT !.index = @ \cup {o.id},
                               !.bids = LevelPush(@, price, o, HigherLevel)]
                      ELSE [book EXCEPT !.index = @ \cup {o.id},
                               !.asks = LevelPush(@, price, o, LowerLevel)]]

\* OrderBook::best_bid / best_ask
best_bid(book) == IF book.bids = <<>> THEN None ELSE Some(book.bids[1].price)
best_ask(book) == IF book.asks = <<>> THEN None ELSE Some(book.asks[1].price)

\* PriceLevel::total_quantity
total_quantity(level) == SumQty(level.orders)

\* the orders of some levels, level after level
LevelOrders(levels) == Concat([i \in 1 .. Len(levels) |-> levels[i].orders])

\* OrderBook::drain_all
drain_all(book) == LevelOrders(book.bids) \o LevelOrders(book.asks)

-----------------------------------------------------------------------------
(* openmatch-matchcore clearing price (clearing.rs) *)

\* the first loop: bid level n + 1 against ask level n + 1 while they cross;
\* w holds the number n of levels walked and the running sums
RECURSIVE CrossWalk(_, _, _)
CrossWalk(bid_levels, ask_levels, w) ==
    IF /\ w.n < Len(bid_levels)
       /\ w.n < Len(ask_levels)
       /\ ~(bid_levels[w.n + 1].price < ask_levels[w.n + 1].price)
    THEN LET cum_demand == w.cum_demand + total_quantity(bid_levels[w.n + 1])
             cum_supply == w.cum_supply + total_quantity(ask_levels[w.n + 1])
         IN CrossWalk(bid_levels, ask_levels,
                      [n |-> w.n + 1, bid_idx |-> w.n + 1,
                       cum_demand |-> cum_demand, cum_supply |-> cum_supply,
                       matchable |-> Min(cum_demand, cum_supply)])
    ELSE w

\* the second loop: the remaining bid levels that cross the last ask level
\* walked (bid_idx counts the bid levels consumed)
RECURSIVE BidWalk(_, _, _)
BidWalk(bid_levels, ask_levels, w) ==
    IF /\ w.bid_idx < Len(bid_levels)
       /\ w.n > 0
       /\ ~(bid_levels[w.bid_idx + 1].price < ask_levels[w.n].price)
    THEN LET cum_demand == w.cum_demand + total_quantity(bid_levels[w.bid_idx + 1])
         IN BidWalk(bid_levels, ask_levels,
                    [w EXCEPT !.bid_idx = @ + 1, !.cum_demand = cum_demand,
                              !.matchable = Min(cum_demand, w.cum_supply)])
    ELSE w

\* clearing::compute_clearing_price(book) -> ClearingResult; Decimal's + panics
\* on overflow
mc_compute_clearing_price(book) ==
    LET bb == best_bid(book)
        ba == best_ask(book)
        none == [res |-> "Ok", clearing_price |-> None, matchable_volume |-> 0,
                 best_bid |-> bb, best_ask |-> ba]
    IN IF bb = None \/ ba = None THEN none
       ELSE IF ~(Unwrap(bb) >= Unwrap(ba)) THEN none
       ELSE LET w == BidWalk(book.bids, book.asks,
                        CrossWalk(book.bids, book.asks,
                                  [n |-> 0, bid_idx |-> 0, cum_demand |-> 0,
                                   cum_supply |-> 0, matchable |-> 0]))
            IN IF w.matchable = 0 THEN none
               ELSE IF Unwrap(bb) + Unwrap(ba) > DecimalMax THEN [res |-> "panic"]
               ELSE [res |-> "Ok",
                     clearing_price |-> Some((Unwrap(bb) + Unwrap(ba)) \div 2),
                     matchable_volume |-> w.matchable,
                     best_bid |-> bb, best_ask |-> ba]

-----------------------------------------------------------------------------
(* openmatch-matchcore matcher (matcher.rs, determinism.rs) *)

\* the bytes compute_trade_root feeds to the hasher for one trade
TradeRootBytes(t) ==
    Field("trade_id", t.id) \o Field("u64", t.epoch_id)
    \o Field("order_id", t.taker_order_id) \o Field("order_id", t.maker_order_id)
    \o Field("user_id", t.taker_user_id) \o Field("user_id", t.maker_user_id)
    \o to_string(t.price) \o to_string(t.quantity) \o to_string(t.quote_amount)

\* determinism::compute_trade_root
compute_trade_root(trades) ==
    Sha256("openmatch:trade_root:v2:",
           Field("u64", Len(trades))
           \o Concat([i \in 1 .. Len(trades) |-> TradeRootBytes(trades[i])]))

\* a same-user test that lets every pair through
MCSelfTrade_never(bid, ask) == FALSE

\* the same-user test of match_sealed_batch
MCSelfTrade(bid, ask) == bid.user_id = ask.user_id

\* the Trade match_sealed_batch builds for one fill (its quote amount is
\* computed by the caller, where the multiplication can panic)
MCTrade(bid, ask, clearing_price, fill_qty, quote_amount, epoch_id, fill_seq, at) ==
    [id |-> TradeIdDeterministic(epoch_id, fill_seq),
     epoch_id |-> epoch_id,
     taker_order_id |-> bid.id, taker_user_id |-> bid.user_id,
     maker_order_id |-> ask.id, maker_user_id |-> ask.user_id,
     price |-> clearing_price, quantity |-> fill_qty,
     quote_amount |-> quote_amount,
     taker_side |-> "Buy", matcher_node |-> 0, executed_at |-> at]

\* the fill loops of match_sealed_batch; st holds bids, asks, the index bi of
\* the bid of the for loop, ask_idx (both counted from 1), fill_seq, the
\* trades emitted so far, and whether clearing_price * fill_qty overflowed
RECURSIVE MCFill(_, _, _, _)
MCFill(st, clearing_price, epoch_id, at) ==
    IF st.bi > Len(st.bids) THEN st
    ELSE LET bid == st.bids[st.bi]
         IN IF ~(st.ask_idx <= Len(st.asks) /\ bid.remaining_qty > 0)
            THEN MCFill([st EXCEPT !.bi = @ + 1], clearing_price, epoch_id, at)
            ELSE LET ask == st.asks[st.ask_idx]
                     NextAsk == MCFill([st EXCEPT !.ask_idx = @ + 1],
                                       clearing_price, epoch_id, at)
                 IN IF ask.remaining_qty = 0 THEN NextAsk
                    ELSE IF MCSelfTrade(bid, ask) THEN NextAsk
                    ELSE LET fill_qty == Min(bid.remaining_qty, ask.remaining_qty)
                             quote == checked_mul(clearing_price, fill_qty)
                         IN IF quote = None THEN [st EXCEPT !.panic = TRUE]
                            ELSE MCFill(
                               [st EXCEPT
                                  !.bids[st.bi].remaining_qty = @ - fill_qty,
                                  !.asks[st.ask_idx].remaining_qty = @ - fill_qty,
                                  !.fill_seq = @ + 1,
                                  !.trades = Append(@,
                                      MCTrade(bid, ask, clearing_price, fill_qty,
                                              Unwrap(quote), epoch_id,
                                              st.fill_seq, at)),
                                  !.ask_idx =
                                     IF ask.remaining_qty - fill_qty = 0
                                     THEN @ + 1 ELSE @],
                               clearing_price, epoch_id, at)

\* building the book from the batch: cancels skipped, insert errors ignored
RECURSIVE BuildBook(_, _)
BuildBook(book, orders) ==
    IF orders = <<>> THEN book
    ELSE IF Head(orders).order_type = "Cancel" THEN BuildBook(book, Tail(orders))
    ELSE BuildBook(insert_order(book, Head(orders)).book, Tail(orders))

BySequence(a, b) == a.sequence < b.sequence

\* matcher::match_sealed_batch(batch) -> TradeBundle, the clock reading at;
\* a panic of Decimal arithmetic ends the call without a bundle
match_sealed_batch(batch, at) ==
    IF batch.orders = <<>>
    THEN [res |-> "Ok", epoch_id |-> batch.epoch_id, trades |-> <<>>,
          trade_root |-> compute_trade_root(<<>>), input_hash |-> batch.batch_hash,
          clearing_price |-> None, remaining_orders |-> <<>>]
    ELSE LET book == BuildBook(EmptyBook, batch.orders)
             clearing == mc_compute_clearing_price(book)
         IN IF clearing.res = "panic" THEN [res |-> "panic"]
            ELSE IF clearing.clearing_price = None
            THEN [res |-> "Ok", epoch_id |-> batch.epoch_id, trades |-> <<>>,
                  trade_root |-> compute_trade_root(<<>>),
                  input_hash |-> batch.batch_hash,
                  clearing_price |-> None, remaining_orders |-> drain_all(book)]
            ELSE LET clearing_price == Unwrap(clearing.clearing_price)
                     BidCrosses(l) == l.price >= clearing_price
                     AskCrosses(l) == l.price <= clearing_price
                     bids == SortBy(LevelOrders(SelectSeq(book.bids, BidCrosses)),
                                    BySequence)
                     asks == SortBy(LevelOrders(SelectSeq(book.asks, AskCrosses)),
                                    BySequence)
                     done == MCFill([bids |-> bids, asks |-> asks, bi |-> 1,
                                     ask_idx |-> 1, fill_seq |-> 0,
                                     trades |-> <<>>, panic |-> FALSE],
                                    clearing_price, batch.epoch_id, at)
                     first == SelectSeq(done.bids \o done.asks, HasQty)
                     NotYet(o) ==
                        /\ \A r \in Range(first) : r.id # o.id
                        /\ \A t \in Range(done.trades) :
                              t.taker_order_id # o.id /\ t.maker_order_id # o.id
                 IN IF done.panic THEN [res |-> "panic"]
                    ELSE [res |-> "Ok", epoch_id |-> batch.epoch_id,
                          trades |-> done.trades,
                          trade_root |-> compute_trade_root(done.trades),
                          input_hash |-> batch.batch_hash,
                          clearing_price |-> Some(clearing_price),
                          remaining_orders |->
                              first \o SelectSeq(drain_all(book), NotYet)]

-----------------------------------------------------------------------------
(* SpendRight (spend_right.rs) and the EscrowManager (escrow.rs) over the  *)
(* ingress BalanceManager                                                  *)

\* most SpendRights one EscrowManager mints in a behaviour
MaxRights == 2

\* EpochId of the epoch the SpendRights are minted for
TheEpochId == 1

\* SpendRightState::can_transition_to
can_transition_to(state, target) ==
    state = "Active" /\ target \in {"Spent", "Released"}

\* a SpendRight in state Active, as mint and SpendRight::dummy build it
NewSpendRight(sr_id, order_id, user_id, asset, amount, nonce, epoch_id) ==
    [id |-> sr_id, order_id |-> order_id, user_id |-> user_id, asset |-> asset,
     amount |-> amount, issuer_node |-> 0, state |-> "Active",
     nonce |-> nonce, epoch_id |-> epoch_id]

\* a transition that is taken from every state
SR_mark_spent_unchecked(sr) == [res |-> "Ok", sr |-> [sr EXCEPT !.state = "Spent"]]

\* SpendRight::mark_spent
SR_mark_spent(sr) ==
    IF ~can_transition_to(sr.state, "Spent")
    THEN [res |-> "InvalidSpendRight", sr |-> sr]
    ELSE [res |-> "Ok", sr |-> [sr EXCEPT !.state = "Spent"]]

\* SpendRight::mark_released
SR_mark_released(sr) ==
    IF ~can_transition_to(sr.state, "Released")
    THEN [res |-> "InvalidSpendRight", sr |-> sr]
    ELSE [res |-> "Ok", sr |-> [sr EXCEPT !.state = "Released"]]

ERet(res, rights, bal) == [res |-> res, rights |-> rights, bal |-> bal]

\* a mint that stores the SpendRight before it tries to freeze
EM_mint_store_first(rights, bal, sr_id, order_id, user_id, asset, amount, nonce, epoch_id) ==
    LET f == IBM_freeze(bal, user_id, asset, amount)
        sr == NewSpendRight(sr_id, order_id, user_id, asset, amount, nonce, epoch_id)
    IN ERet(f.res, Put(rights, sr_id, sr), f.bal)

\* EscrowManager::mint; sr_id is the SpendRightId::new() drawn for the right
\* and nonce the value of NONCE_COUNTER
EM_mint(rights, bal, sr_id, order_id, user_id, asset, amount, nonce, epoch_id) ==
    LET f == IBM_freeze(bal, user_id, asset, amount)
    IN IF f.res # "Ok" THEN ERet(f.res, rights, f.bal)
       ELSE LET sr == NewSpendRight(sr_id, order_id, user_id, asset, amount,
                                    nonce, epoch_id)
            IN ERet("Ok", Put(rights, sr_id, sr), f.bal)

\* a release that marks the SpendRight before it unfreezes
EM_release_mark_first(rights, bal, sr_id) ==
    IF sr_id \notin DOMAIN rights THEN ERet("InvalidSpendRight", rights, bal)
    ELSE LET sr == rights[sr_id]
             m == SR_mark_released(sr)
             u == IBM_unfreeze(bal, sr.user_id, sr.asset, sr.amount)
         IN IF m.res # "Ok" THEN ERet(m.res, rights, bal)
            ELSE ERet(u.res, [rights EXCEPT ![sr_id] = m.sr], u.bal)

\* EscrowManager::release
EM_release(rights, bal, sr_id) ==
    IF sr_id \notin DOMAIN rights THEN ERet("InvalidSpendRight", rights, bal)
    ELSE LET sr == rights[sr_id]
         IN IF sr.state # "Active" THEN ERet("InvalidSpendRight", rights, bal)
            ELSE LET u == IBM_unfreeze(bal, sr.user_id, sr.asset, sr.amount)
                 IN IF u.res # "Ok" THEN ERet(u.res, rights, u.bal)
                    ELSE LET m == SR_mark_released(sr)
                         IN IF m.res # "Ok" THEN ERet(m.res, rights, u.bal)
                            ELSE ERet("Ok", [rights EXCEPT ![sr_id] = m.sr], u.bal)

\* EscrowManager::mark_spent
EM_mark_spent(rights, sr_id) ==
    IF sr_id \notin DOMAIN rights THEN [res |-> "InvalidSpendRight", rights |-> rights]
    ELSE LET m == SR_mark_spent(rights[sr_id])
         IN [res |-> m.res, rights |-> [rights EXCEPT ![sr_id] = m.sr]]

\* EscrowManager::new, and SpendRight::dummy for the free-standing right
EscrowVarsInit ==
    /\ spend_rights = <<>>
    /\ dummy_sr = NewSpendRight(MaxRights + 1, 0, "alice", "USDT", 1, 0, TheEpochId)

-----------------------------------------------------------------------------
(* openmatch-core OrderRateLimiter (security.rs) *)

\* window_ms, max_per_window and max_per_epoch passed to OrderRateLimiter::new
WindowMs == 1
MaxPerWindow == 2
MaxPerEpoch == 3
\* largest timestamp a caller passes as now_ms
MaxTimeMs == 3

\* u64::saturating_sub
saturating_sub(a, b) == IF a < b THEN 0 ELSE a - b

\* HashMap::entry(k).or_insert(v) / or_default()
OrInsert(map, k, v) ==
    IF k \in DOMAIN map THEN map
    ELSE [x \in (DOMAIN map) \cup {k} |-> IF x = k THEN v ELSE map[x]]

\* the pruning loop of check_and_record: pop the front while it is older
\* than the cutoff
RECURSIVE Prune(_, _)
Prune(window, cutoff) ==
    IF window # <<>> /\ Head(window) < cutoff THEN Prune(Tail(window), cutoff)
    ELSE window

LRet(res, w, e) == [res |-> res, windows |-> w, epoch_counts |-> e]

\* a check_and_record that rejects only when the window is over its limit
RL_check_and_record_off_by_one(w, e, window_ms, max_per_window, max_per_epoch, user_id, now_ms) ==
    LET e0 == OrInsert(e, user_id, 0)
    IN IF e0[user_id] >= max_per_epoch THEN LRet("OrderFloodDetected", w, e0)
       ELSE LET w0 == OrInsert(w, user_id, <<>>)
                cutoff == saturating_sub(now_ms, window_ms)
                window == Prune(w0[user_id], cutoff)
            IN IF Len(window) > max_per_window
               THEN LRet("RateLimitExceeded", [w0 EXCEPT ![user_id] = window], e0)
               ELSE LRet("Ok", [w0 EXCEPT ![user_id] = Append(window, now_ms)],
                         [e0 EXCEPT ![user_id] = @ + 1])

\* OrderRateLimiter::check_and_record
RL_check_and_record(w, e, window_ms, max_per_window, max_per_epoch, user_id, now_ms) ==
    LET e0 == OrInsert(e, user_id, 0)
    IN IF e0[user_id] >= max_per_epoch THEN LRet("OrderFloodDetected", w, e0)
       ELSE LET w0 == OrInsert(w, user_id, <<>>)
                cutoff == saturating_sub(now_ms, window_ms)
                window == Prune(w0[user_id], cutoff)
            IN IF Len(window) >= max_per_window
               THEN LRet("RateLimitExceeded", [w0 EXCEPT ![user_id] = window], e0)
               ELSE LRet("Ok", [w0 EXCEPT ![user_id] = Append(window, now_ms)],
                         [e0 EXCEPT ![user_id] = @ + 1])

\* OrderRateLimiter::epoch_count
epoch_count(e, user_id) == IF user_id \in DOMAIN e THEN e[user_id] ELSE 0

\* OrderRateLimiter::new
LimiterVarsInit ==
    /\ windows = <<>>
    /\ epoch_counts = <<>>
    /\ accepted_log = [u \in Users |-> <<>>]
    /\ epoch_log = [u \in Users |-> <<>>]
    /\ last_ms = [u \in Users |-> 0]

-----------------------------------------------------------------------------
(* openmatch-core NonceTracker and PriceSanityChecker (security.rs) *)

\* the issuing nodes, and the largest nonce a proof carries
Nodes == {"n1", "n2"}
MaxNonce == 2
\* max_per_node passed to NonceTracker::new
MaxPerNode == 2

\* HashMap::remove
Remove(map, k) == [x \in (DOMAIN map) \ {k} |-> map[x]]

NRet(res, used) == [res |-> res, used |-> used]

\* a check_and_record that looks at the quota before it looks for a replay
NT_check_and_record_quota_first(used, max_per_node, node_id, nonce) ==
    LET u0 == OrInsert(used, node_id, {})
    IN IF Cardinality(u0[node_id]) >= max_per_node THEN NRet("RateLimitExceeded", u0)
       ELSE IF nonce \in u0[node_id] THEN NRet("NonceReplay", u0)
       ELSE NRet("Ok", [u0 EXCEPT ![node_id] = @ \cup {nonce}])

\* NonceTracker::check_and_record
NT_check_and_record(used, max_per_node, node_id, nonce) ==
    LET u0 == OrInsert(used, node_id, {})
    IN IF nonce \in u0[node_id] THEN NRet("NonceReplay", u0)
       ELSE IF Cardinality(u0[node_id]) >= max_per_node THEN NRet("RateLimitExceeded", u0)
       ELSE NRet("Ok", [u0 EXCEPT ![node_id] = @ \cup {nonce}])

\* NonceTracker::clear_node
NT_clear_node(used, node_id) == Remove(used, node_id)

\* NonceTracker::clear_all
NT_clear_all(used) == <<>>

\* the markets whose prices are checked
Markets == {"BTC/USDT", "ETH/USDT"}
\* max_deviation_multiplier passed to PriceSanityChecker::new
MaxDeviation == 2
\* largest limit price a caller passes
MaxPrice == 5
\* the prices callers pass: negative, zero, limit prices, and Decimal::MAX
CheckedPrices == {0 - 1} \cup (0 .. MaxPrice) \cup {DecimalMax}

\* Decimal::saturating_mul
saturating_mul(a, b) == IF a * b > DecimalMax THEN DecimalMax ELSE a * b

\* PriceSanityChecker::update_reference
PS_update_reference(refs, market, price) ==
    IF price > 0
    THEN [x \in (DOMAIN refs) \cup {market} |-> IF x = market THEN price ELSE refs[x]]
    ELSE refs

\* a check_price that measures against the reference of whichever market has one
PS_check_price_any_market(refs, max_deviation, market, price) ==
    IF price <= 0 THEN "SuspiciousPrice"
    ELSE IF price = DecimalMax THEN "Ok"
    ELSE IF refs # <<>>
    THEN LET ref_price == refs[CHOOSE m \in DOMAIN refs : TRUE]
             upper == saturating_mul(ref_price, max_deviation)
         IN IF price > upper \/ price * max_deviation < ref_price
            THEN "SuspiciousPrice" ELSE "Ok"
    ELSE "Ok"

\* PriceSanityChecker::check_price; lower = ref_price / max_deviation, so
\* price < lower is price * max_deviation < ref_price
PS_check_price(refs, max_deviation, market, price) ==
    IF price <= 0 THEN "SuspiciousPrice"
    ELSE IF price = DecimalMax THEN "Ok"
    ELSE IF market \in DOMAIN refs
    THEN LET ref_price == refs[market]
             upper == saturating_mul(ref_price, max_deviation)
         IN IF price > upper \/ price * max_deviation < ref_price
            THEN "SuspiciousPrice" ELSE "Ok"
    ELSE "Ok"

\* NonceTracker::new, PriceSanityChecker::new
SecurityVarsInit ==
    /\ used_nonces = <<>>
    /\ nonce_log = [n \in Nodes |-> {}]
    /\ reference_prices = <<>>

-----------------------------------------------------------------------------
(* openmatch-ingress RiskKernel (risk_kernel.rs) *)

\* the limits passed to RiskKernel::with_limits
MaxOrdersPerUserPerEpoch == 2
MaxOrderSize == 2
MaxPriceDeviation == 2

\* largest price a caller passes to validate or set_last_price
MaxRiskPrice == 5

\* the one market the orders are for (order.market.symbol())
RiskMarket == "BTC/USDT"

\* the orders callers hand to validate: any type, quantities around zero and
\* around max_order_size, prices around zero and around the deviation bound
RiskOrders ==
    [user_id : Users, order_type : {"Limit"},
     price : {None} \cup {Some(p) : p \in {0, 1, MaxRiskPrice}},
     quantity : {0, 1, MaxOrderSize + 1}]
    \cup [user_id : Users, order_type : {"Market", "Cancel"},
          price : {None}, quantity : {0, 1, MaxOrderSize + 1}]

RKRet(res, counts) == [res |-> res, counts |-> counts]

\* RiskKernel::check_price_deviation: the larger of price / last_price and
\* last_price / price against max_price_deviation (both prices positive)
check_price_deviation(prices, max_price_deviation, market, price) ==
    IF market \notin DOMAIN prices THEN "Ok"
    ELSE IF prices[market] = 0 THEN "Ok"
    ELSE IF price > prices[market]
    THEN (IF price > max_price_deviation * prices[market]
          THEN "SuspiciousPrice" ELSE "Ok")
    ELSE (IF prices[market] > max_price_deviation * price
          THEN "SuspiciousPrice" ELSE "Ok")

\* A faulty validate that counts the order before the cap is compared, so
\* that rejected orders count: C38 must tell it from the code.
RK_validate_count_first(counts, prices, max_orders, max_order_size, max_price_deviation, o) ==
    LET c == OrInsert(counts, o.user_id, 0)
        n == [c EXCEPT ![o.user_id] = @ + 1]
    IN IF o.quantity <= 0 THEN RKRet("InvalidOrder", counts)
       ELSE IF o.order_type = "Cancel" THEN RKRet("Ok", counts)
       ELSE IF o.quantity > max_order_size THEN RKRet("InvalidOrder", counts)
       ELSE IF o.order_type = "Limit" /\ o.price # None /\ Unwrap(o.price) <= 0
       THEN RKRet("SuspiciousPrice", counts)
       ELSE IF o.order_type = "Limit" /\ o.price # None
               /\ check_price_deviation(prices, max_price_deviation, RiskMarket,
                                        Unwrap(o.price)) # "Ok"
       THEN RKRet("SuspiciousPrice", counts)
       ELSE IF n[o.user_id] > max_orders THEN RKRet("OrderFloodDetected", n)
       ELSE RKRet("Ok", n)

\* RiskKernel::validate: quantity, the Cancel bypass, size, price sanity of
\* Limit orders, then the per-user epoch count
RK_validate(counts, prices, max_orders, max_order_size, max_price_deviation, o) ==
    IF o.quantity <= 0 THEN RKRet("InvalidOrder", counts)
    ELSE IF o.order_type = "Cancel" THEN RKRet("Ok", counts)
    ELSE IF o.quantity > max_order_size THEN RKRet("InvalidOrder", counts)
    ELSE IF o.order_type = "Limit" /\ o.price # None /\ Unwrap(o.price) <= 0
    THEN RKRet("SuspiciousPrice", counts)
    ELSE IF o.order_type = "Limit" /\ o.price # None
            /\ check_price_deviation(prices, max_price_deviation, RiskMarket,
                                     Unwrap(o.price)) # "Ok"
    THEN RKRet("SuspiciousPrice", counts)
    ELSE LET c == OrInsert(counts, o.user_id, 0)
         IN IF c[o.user_id] >= max_orders THEN RKRet("OrderFloodDetected", c)
            ELSE RKRet("Ok", [c EXCEPT ![o.user_id] = @ + 1])

\* RiskKernel::user_order_count
user_order_count(counts, user_id) == IF user_id \in DOMAIN counts THEN counts[user_id] ELSE 0

\* RiskKernel::with_limits
RiskVarsInit ==
    /\ epoch_order_counts = <<>>
    /\ current_epoch = 0
    /\ last_prices = <<>>
    /\ validated_log = [u \in Users |-> [orders |-> 0, cancels |-> 0]]

ServiceVarsInit ==
    /\ EscrowVarsInit
    /\ LimiterVarsInit
    /\ SecurityVarsInit
    /\ RiskVarsInit

\* no buffer filled, nothing sealed, nothing matched
MatchVarsInit ==
    /\ core_buffers = [i \in 1 .. MaxRuns |-> PB_new(TheBatchId)]
    /\ ingress_buffer = IPB_new(MaxOrders)
    /\ sealed_batch = None
    /\ results = <<>>
    /\ now = 0

-----------------------------------------------------------------------------
(* The ledger specification: any calls on one of the three ledgers *)

NoCall == Call("new", "Ok")

\* SecuredBalanceManager::new / Tier1Settler::new / BalanceManager::new and
\* the guards' new: no balance, no settled trade, no call made
LedgerVarsInit ==
    /\ last = NoCall
    /\ balances = <<>>
    /\ settled = {}
    /\ order = <<>>
    /\ current_phase = "Collect"
    /\ emergency_lock = FALSE
    /\ total_deposits = [a \in Assets |-> 0]
    /\ total_withdrawals = [a \in Assets |-> 0]
    /\ ops_count = 0
    /\ marked_log = <<>>
    /\ settled_ok = {}
    /\ calls = 0

LedgerInit ==
    /\ sut \in {"core", "tier1", "ingress"}
    /\ LedgerVarsInit
    /\ MatchVarsInit
    /\ ServiceVarsInit

LedgerNext ==
    \/ \E u \in Users, a \in Assets, x \in Amounts : SecuredDeposit(u, a, x)
    \/ \E u \in Users, a \in Assets, x \in Amounts : SecuredWithdraw(u, a, x)
    \/ \E u \in Users, a \in Assets, x \in Amounts : SecuredFreeze(u, a, x)
    \/ \E u \in Users, a \in Assets, x \in Amounts : SecuredUnfreeze(u, a, x)
    \/ \E t \in Trades : SecuredSettleTrade(t)
    \/ \E u \in Users, a \in Assets, x \in Amounts : Tier1Deposit(u, a, x)
    \/ \E u \in Users, a \in Assets, x \in Amounts : Tier1Freeze(u, a, x)
    \/ \E t \in Trades : Tier1SettleTrade(t)
    \/ \E op \in IngressOps, u \in Users, a \in Assets, x \in Amounts :
          IngressCall(op, u, a, x)

vars == <<sut, last, calls, ledgerVars, historyVars, matchVars, serviceVars>>

SpecLedger == LedgerInit /\ [][LedgerNext]_vars

-----------------------------------------------------------------------------
(* Properties of the ledgers, checked under SpecLedger *)

\* the step is a call of op that returned res
Returned(op, res) ==
    /\ calls' = calls + 1
    /\ last' = Call(op, res)

\* C1: a settle_trade of the core BalanceManager or of Tier1Settler that
\* fails with InsufficientFrozen leaves the buyer's and the seller's base and
\* quote subaccounts (and so every balance) as they were before the call.
C1_FailedSettleChangesNothing ==
    [][Returned("settle_trade", "InsufficientFrozen")
          => View(balances') = View(balances)]_vars

\* C2: supply conservation through SecuredBalanceManager and Tier1Settler:
\* after any calls, failing ones included, for every asset the sum over the
\* users of available + frozen is the recorded deposits minus the recorded
\* withdrawals.
C2_SupplyConserved ==
    sut \in {"core", "tier1"} =>
        \A a \in Assets :
            SumTotals(balances, a, Users) = total_deposits[a] - total_withdrawals[a]

\* C3: in every reachable state of each of the three ledgers, every entry has
\* available >= 0 and frozen >= 0, whatever amounts the callers pass.
C3_NonNegativeBalances ==
    \A k \in DOMAIN balances : balances[k].available >= 0 /\ balances[k].frozen >= 0

\* C5: a settle_trade of SecuredBalanceManager or Tier1Settler rejected with
\* TradeAlreadySettled leaves every user's available and frozen balances as
\* they were before the call.
C5_DoubleSettleChangesNothing ==
    [][Returned("settle_trade", "TradeAlreadySettled")
          => View(balances') = View(balances)]_vars

\* C5 happens: a settle_trade was rejected with TradeAlreadySettled, and every
\* trade id the guard holds (the rejected one is among them) belongs to a
\* trade whose settle_trade had returned Ok and moved the balances.
C5_Witness ==
    /\ last = Call("settle_trade", "TradeAlreadySettled")
    /\ settled # {}
    /\ settled \subseteq settled_ok
    /\ \E k \in Keys : Get(balances, k).available > 0

-----------------------------------------------------------------------------
(* The guard specification: any mark_settled calls on one of the two guards *)

MarkCall(trade_id, res) == [op |-> "mark_settled", res |-> res, id |-> trade_id]

\* SettlementIdempotencyGuard::mark_settled, called on the guard itself
CoreGuardMarkSettled(trade_id) ==
    /\ sut = "core_guard"
    /\ calls < MaxCalls
    /\ LET g == SIG_mark_settled(settled, order, IdempotencyCacheSize, trade_id)
       IN /\ settled' = g.settled
          /\ order' = g.order
          /\ last' = MarkCall(trade_id, g.res)
          /\ marked_log' =
                IF g.res = "Ok" THEN Append(marked_log, trade_id) ELSE marked_log
    /\ UNCHANGED <<sut, balances, current_phase, emergency_lock, total_deposits,
                   total_withdrawals, ops_count, settled_ok>>
    /\ calls' = calls + 1
    /\ UNCHANGED <<matchVars, serviceVars>>

\* IdempotencyGuard::mark_settled, called on the guard itself
SettlementGuardMarkSettled(trade_id) ==
    /\ sut = "settlement_guard"
    /\ calls < MaxCalls
    /\ LET g == IG_mark_settled(settled, order, IdempotencyCacheSize, trade_id)
       IN /\ settled' = g.settled
          /\ order' = g.order
          /\ last' = MarkCall(trade_id, g.res)
          /\ marked_log' =
                IF g.res = "Ok" THEN Append(marked_log, trade_id) ELSE marked_log
    /\ UNCHANGED <<sut, balances, current_phase, emergency_lock, total_deposits,
                   total_withdrawals, ops_count, settled_ok>>
    /\ calls' = calls + 1
    /\ UNCHANGED <<matchVars, serviceVars>>

\* SettlementIdempotencyGuard::new / IdempotencyGuard::new
GuardInit ==
    /\ sut \in {"core_guard", "settlement_guard"}
    /\ LedgerVarsInit
    /\ MatchVarsInit
    /\ ServiceVarsInit

GuardNext ==
    \/ \E trade_id \in TradeIds : CoreGuardMarkSettled(trade_id)
    \/ \E trade_id \in TradeIds : SettlementGuardMarkSettled(trade_id)

SpecGuard == GuardInit /\ [][GuardNext]_vars

-----------------------------------------------------------------------------
(* Properties of the guards, checked under SpecGuard *)

\* the ids among the n last elements of a sequence
LastIds(log, n) == {log[i] : i \in {j \in 1 .. Len(log) : j > Len(log) - n}}

\* the ids accepted before the last call
AcceptedBefore ==
    IF last.res = "Ok" THEN SubSeq(marked_log, 1, Len(marked_log) - 1)
    ELSE marked_log

-----------------------------------------------------------------------------
(* The matching specification: one batch is collected, sealed and matched,  *)
(* by the core pipeline (two nodes fed the same pushes) or by the ingress / *)
(* matchcore pipeline (one sealed batch matched twice)                      *)

\* PendingBuffer::push of the same order on the buffer of either node
CorePush(shape) ==
    /\ sut = "core_matcher"
    /\ results = <<>>
    /\ LET o == NewOrder(shape, Len(core_buffers[1].orders), 0)
       IN core_buffers' = [i \in 1 .. MaxRuns |-> PB_push(core_buffers[i], o).buf]
    /\ UNCHANGED <<sut, last, calls, ledgerVars, historyVars, serviceVars,
                   ingress_buffer, sealed_batch, results, now>>

\* PendingBuffer::seal on the buffer of either node
CoreSeal ==
    /\ sut = "core_matcher"
    /\ results = <<>>
    /\ core_buffers' = [i \in 1 .. MaxRuns |-> PB_seal(core_buffers[i]).buf]
    /\ UNCHANGED <<sut, last, calls, ledgerVars, historyVars, serviceVars,
                   ingress_buffer, sealed_batch, results, now>>

\* BatchMatcher::match_batch: the matcher of the next node consumes its buffer
CoreMatchBatch ==
    /\ sut = "core_matcher"
    /\ Len(results) < MaxRuns
    /\ LET node == Len(results) + 1
       IN results' = Append(results, match_batch(node, core_buffers[node], now))
    /\ now' = now + 1
    /\ UNCHANGED <<sut, last, calls, ledgerVars, historyVars, serviceVars,
                   core_buffers, ingress_buffer, sealed_batch>>

\* ingress PendingBuffer::push; the caller numbers its orders as it submits them
IngressPush(shape) ==
    /\ sut = "matchcore"
    /\ LET k == Len(ingress_buffer.orders)
       IN ingress_buffer' = IPB_push(ingress_buffer, NewOrder(shape, k, k)).buf
    /\ UNCHANGED <<sut, last, calls, ledgerVars, historyVars, serviceVars,
                   core_buffers, sealed_batch, results, now>>

\* ingress PendingBuffer::seal
IngressSeal ==
    /\ sut = "matchcore"
    /\ ingress_buffer' = IPB_seal(ingress_buffer).buf
    /\ UNCHANGED <<sut, last, calls, ledgerVars, historyVars, serviceVars,
                   core_buffers, sealed_batch, results, now>>

\* PendingBuffer::drain, then BatchSealer::seal on the drained orders
BatchSeal ==
    /\ sut = "matchcore"
    /\ sealed_batch = None
    /\ LET d == IPB_drain(ingress_buffer)
       IN IF d.res # "Ok"
          THEN UNCHANGED <<ingress_buffer, sealed_batch, now>>
          ELSE /\ ingress_buffer' = d.buf
               /\ sealed_batch' = Some(BatchSealer_seal(1, TheBatchId, d.orders, now))
               /\ now' = now + 1
    /\ UNCHANGED <<sut, last, calls, ledgerVars, historyVars, serviceVars, core_buffers, results>>

\* matcher::match_sealed_batch on the sealed batch
MatchSealedBatch ==
    /\ sut = "matchcore"
    /\ sealed_batch # None
    /\ Len(results) < MaxRuns
    /\ results' = Append(results, match_sealed_batch(Unwrap(sealed_batch), now))
    /\ now' = now + 1
    /\ UNCHANGED <<sut, last, calls, ledgerVars, historyVars, serviceVars,
                   core_buffers, ingress_buffer, sealed_batch>>

MatchInit ==
    /\ sut \in {"core_matcher", "matchcore"}
    /\ LedgerVarsInit
    /\ MatchVarsInit
    /\ ServiceVarsInit

MatchNext ==
    \/ \E shape \in OrderShapes : CorePush(shape)
    \/ CoreSeal
    \/ CoreMatchBatch
    \/ \E shape \in OrderShapes : IngressPush(shape)
    \/ IngressSeal
    \/ BatchSeal
    \/ MatchSealedBatch

SpecMatch == MatchInit /\ [][MatchNext]_vars

-----------------------------------------------------------------------------
(* Properties of the two matchers *)

\* the orders run i matched: the sealed buffer handed to the core matcher of
\* node i, or the orders of the sealed batch
InputOrders(i) ==
    IF sut = "core_matcher" THEN core_buffers[i].orders
    ELSE Unwrap(sealed_batch).orders

\* the runs that returned a bundle
Bundles == {i \in 1 .. Len(results) : results[i].res = "Ok"}

\* the order of a batch with the given id
OrderOf(orders, id) == CHOOSE o \in Range(orders) : o.id = id

\* C6: every trade of every bundle, of the core matcher and of matchcore, has
\* a taker user different from its maker user
C6_NoSelfTrade ==
    \A i \in Bundles : \A t \in Range(results[i].trades) :
        t.taker_user_id # t.maker_user_id

\* a bundle with a trade, from a batch in which one user has a buy and a sell
\* that both cross the clearing price
C6_Witness ==
    \E i \in Bundles :
        /\ results[i].trades # <<>>
        /\ \E b, s \in Range(InputOrders(i)) :
              /\ b.side = "Buy" /\ s.side = "Sell"
              /\ b.order_type # "Cancel" /\ s.order_type # "Cancel"
              /\ b.user_id = s.user_id
              /\ effective_price(b) >= Unwrap(results[i].clearing_price)
              /\ effective_price(s) <= Unwrap(results[i].clearing_price)

\* what two nodes compare of a trade in either pipeline
TradeFacts(t) ==
    [id |-> t.id, price |-> t.price, quantity |-> t.quantity,
     taker_order_id |-> t.taker_order_id, maker_order_id |-> t.maker_order_id,
     taker_user_id |-> t.taker_user_id, maker_user_id |-> t.maker_user_id]

TradeList(i) == [k \in 1 .. Len(results[i].trades) |-> TradeFacts(results[i].trades[k])]

\* the commitment to the trades: result_hash (core) or trade_root (matchcore)
Commitment(i) ==
    IF sut = "core_matcher" THEN results[i].result_hash ELSE results[i].trade_root

\* C7: two core matchers with different node ids on buffers with the same
\* batch id and the same pushes, and two matchcore runs on the same sealed
\* batch, agree on the outcome, the input hash, the list of trades (ids,
\* prices, quantities, taker and maker order ids, in order) and the
\* result_hash / trade_root
C7_Deterministic ==
    \A i, j \in 1 .. Len(results) :
        /\ results[i].res = results[j].res
        /\ results[i].res = "Ok" =>
              /\ results[i].input_hash = results[j].input_hash
              /\ TradeList(i) = TradeList(j)
              /\ Commitment(i) = Commitment(j)
              /\ results[i].clearing_price = results[j].clearing_price

\* two bundles with trades, produced at different times (and, in the core
\* pipeline, by different nodes)
C7_Witness ==
    /\ {1, 2} \subseteq Bundles
    /\ Len(results[1].trades) >= 2
    /\ results[1].trades[1].executed_at # results[2].trades[1].executed_at
    /\ sut = "core_matcher" =>
          results[1].trades[1].matcher_node # results[2].trades[1].matcher_node

\* sum of the remaining quantity of the orders of s at the positions I
RECURSIVE RemainingAt(_, _)
RemainingAt(s, I) ==
    IF I = {} THEN 0
    ELSE LET i == CHOOSE i \in I : TRUE
         IN s[i].remaining_qty + RemainingAt(s, I \ {i})

\* the clearing-price rule as it is specified
SpecDemand(buys, p) ==
    RemainingAt(buys, {i \in 1 .. Len(buys) : effective_price(buys[i]) >= p})
SpecSupply(sells, p) ==
    RemainingAt(sells, {i \in 1 .. Len(sells) : effective_price(sells[i]) <= p})
SpecMatchable(buys, sells, p) == Min(SpecDemand(buys, p), SpecSupply(sells, p))
SpecImbalance(buys, sells, p) == Abs(SpecDemand(buys, p) - SpecSupply(sells, p))
Candidates(buys, sells) ==
    {effective_price(o) : o \in Range(buys) \cup Range(sells)} \ {DecimalMax}
Feasible(buys, sells) ==
    {p \in Candidates(buys, sells) : SpecMatchable(buys, sells, p) > 0}
\* p is at least as good as q: more matchable, then less imbalance, then higher
Preferred(buys, sells, p, q) ==
    \/ SpecMatchable(buys, sells, p) > SpecMatchable(buys, sells, q)
    \/ /\ SpecMatchable(buys, sells, p) = SpecMatchable(buys, sells, q)
       /\ SpecImbalance(buys, sells, p) < SpecImbalance(buys, sells, q)
    \/ /\ SpecMatchable(buys, sells, p) = SpecMatchable(buys, sells, q)
       /\ SpecImbalance(buys, sells, p) = SpecImbalance(buys, sells, q)
       /\ p >= q
\* None, or the one best candidate
SpecifiedPrice(buys, sells) ==
    IF buys = <<>> \/ sells = <<>> THEN None
    ELSE {p \in Feasible(buys, sells) :
             \A q \in Feasible(buys, sells) : Preferred(buys, sells, p, q)}

\* the full answer the rule prescribes for compute_clearing_price
SpecifiedClearing(buys, sells) ==
    {[price |-> p, volume |-> SpecMatchable(buys, sells, p),
      demand |-> SpecDemand(buys, p), supply |-> SpecSupply(sells, p)] :
        p \in SpecifiedPrice(buys, sells)}

\* C8: core compute_clearing_price returns None when a side is empty or no
\* candidate has positive matchable volume, and otherwise the candidate with
\* the largest matchable volume, then the smallest imbalance, then the highest
\* price; match_batch reports that price
C8_CoreClearingPrice ==
    sut = "core_matcher" =>
        /\ \A i \in 1 .. MaxRuns :
              LET buys == CoreBuys(core_buffers[i].orders)
                  sells == CoreSells(core_buffers[i].orders)
              IN core_compute_clearing_price(buys, sells)
                     = SpecifiedClearing(buys, sells)
        /\ \A i \in Bundles :
              results[i].clearing_price
                  = SpecifiedPrice(CoreBuys(InputOrders(i)), CoreSells(InputOrders(i)))

\* a core bundle whose price was decided by the imbalance rule against a
\* higher price with the same matchable volume
C8_Witness ==
    /\ sut = "core_matcher"
    /\ \E i \in Bundles :
          LET buys == CoreBuys(InputOrders(i))
              sells == CoreSells(InputOrders(i))
          IN /\ results[i].clearing_price # None
             /\ \E q \in Feasible(buys, sells) :
                   LET p == Unwrap(results[i].clearing_price)
                   IN /\ q > p
                      /\ SpecMatchable(buys, sells, q) = SpecMatchable(buys, sells, p)
                      /\ SpecImbalance(buys, sells, q) > SpecImbalance(buys, sells, p)

\* C9: the clearing price matchcore uses is the price the specified rule
\* picks among the prices of the orders of the batch (largest matchable
\* volume, then smallest imbalance, then highest price), and matchcore finds
\* a price whenever the rule has one
C9_MatchcoreClearingPrice ==
    sut = "matchcore" =>
        \A i \in 1 .. Len(results) :
            /\ results[i].res = "Ok"
            /\ results[i].clearing_price
                  = SpecifiedPrice(CoreBuys(InputOrders(i)), CoreSells(InputOrders(i)))

\* C10: a bundle of either matcher with at least one trade has its clearing
\* price set, and every trade of the bundle has that price
C10_UniformPricing ==
    \A i \in Bundles :
        results[i].trades # <<>> =>
            /\ results[i].clearing_price # None
            /\ \A t \in Range(results[i].trades) :
                  t.price = Unwrap(results[i].clearing_price)

\* a bundle with two trades whose buyers bid different prices, so that at
\* least one of them did not bid the clearing price
C10_Witness ==
    \E i \in Bundles :
        /\ Len(results[i].trades) >= 2
        /\ \E t, u \in Range(results[i].trades) :
              LET b == OrderOf(InputOrders(i), t.taker_order_id)
                  c == OrderOf(InputOrders(i), u.taker_order_id)
              IN /\ effective_price(b) # effective_price(c)
                 /\ effective_price(b) # t.price

\* the sum of the quantities of a list of trades
RECURSIVE TradedQuantity(_)
TradedQuantity(trades) ==
    IF trades = <<>> THEN 0
    ELSE Head(trades).quantity + TradedQuantity(Tail(trades))

\* min(D, S) of a bundle: the eligible demand and supply of its sealed input
\* at its clearing price
EligibleVolume(i) ==
    LET cp == Unwrap(results[i].clearing_price)
    IN Min(SpecDemand(CoreBuys(InputOrders(i)), cp),
           SpecSupply(CoreSells(InputOrders(i)), cp))

\* C11: in every bundle with a clearing price cp, the trade quantities sum to
\* at most min(D, S), D the remaining quantity of the non-Cancel buys with
\* effective price >= cp and S that of the non-Cancel sells with effective
\* price <= cp in the sealed input
C11_FillsWithinEligibleVolume ==
    \A i \in Bundles :
        results[i].clearing_price # None =>
            TradedQuantity(results[i].trades) <= EligibleVolume(i)

\* a bundle of two trades that fills the whole of the shorter side, the
\* other side being longer
C11_Witness ==
    \E i \in Bundles :
        /\ results[i].clearing_price # None
        /\ Len(results[i].trades) >= 2
        /\ TradedQuantity(results[i].trades) = EligibleVolume(i)
        /\ LET cp == Unwrap(results[i].clearing_price)
           IN SpecDemand(CoreBuys(InputOrders(i)), cp)
                  # SpecSupply(CoreSells(InputOrders(i)), cp)

-----------------------------------------------------------------------------
(* The escrow specification: any calls on an EscrowManager and its ingress *)
(* BalanceManager, and on a free-standing SpendRight                       *)

\* the call made last, its argument and the value it returned
EscrowCall(op, arg, res) == [op |-> op, arg |-> arg, res |-> res]

\* the asset the orders of the behaviour are funded in (the quote asset)
EscrowAssets == {Market.quote}

\* the SpendRightIds callers pass: those minted and one never minted
RightIds == 0 .. MaxRights

\* BalanceManager::deposit on the escrow's balance manager
EscrowDeposit(u, a, x) ==
    /\ sut = "escrow"
    /\ calls < MaxCalls
    /\ balances' = IBM_deposit(balances, u, a, x).bal
    /\ last' = EscrowCall("deposit", <<u, a, x>>, "Ok")
    /\ calls' = calls + 1
    /\ UNCHANGED <<sut, settled, order, current_phase, emergency_lock,
                   total_deposits, total_withdrawals, ops_count>>
    /\ UNCHANGED <<historyVars, matchVars, escrowVars, limiterVars, riskVars, securityVars>>

\* BalanceManager::consume_frozen, as settlement calls it
EscrowConsumeFrozen(u, a, x) ==
    /\ sut = "escrow"
    /\ calls < MaxCalls
    /\ LET r == IBM_consume_frozen(balances, u, a, x)
       IN /\ balances' = r.bal
          /\ last' = EscrowCall("consume_frozen", <<u, a, x>>, r.res)
    /\ calls' = calls + 1
    /\ UNCHANGED <<sut, settled, order, current_phase, emergency_lock,
                   total_deposits, total_withdrawals, ops_count>>
    /\ UNCHANGED <<historyVars, matchVars, escrowVars, limiterVars, riskVars, securityVars>>

\* EscrowManager::mint; the fresh SpendRightId and the nonce are the number
\* of SpendRights minted so far
EscrowMint(u, a, x) ==
    /\ sut = "escrow"
    /\ calls < MaxCalls
    /\ Cardinality(DOMAIN spend_rights) < MaxRights
    /\ LET n == Cardinality(DOMAIN spend_rights)
           r == EM_mint(spend_rights, balances, n, n, u, a, x, n, TheEpochId)
       IN /\ spend_rights' = r.rights
          /\ balances' = r.bal
          /\ last' = EscrowCall("mint", <<u, a, x>>, r.res)
    /\ calls' = calls + 1
    /\ UNCHANGED <<sut, settled, order, current_phase, emergency_lock,
                   total_deposits, total_withdrawals, ops_count>>
    /\ UNCHANGED <<historyVars, matchVars, dummy_sr, limiterVars, riskVars, securityVars>>

\* EscrowManager::release
EscrowRelease(sr_id) ==
    /\ sut = "escrow"
    /\ calls < MaxCalls
    /\ LET r == EM_release(spend_rights, balances, sr_id)
       IN /\ spend_rights' = r.rights
          /\ balances' = r.bal
          /\ last' = EscrowCall("release", sr_id, r.res)
    /\ calls' = calls + 1
    /\ UNCHANGED <<sut, settled, order, current_phase, emergency_lock,
                   total_deposits, total_withdrawals, ops_count>>
    /\ UNCHANGED <<historyVars, matchVars, dummy_sr, limiterVars, riskVars, securityVars>>

\* a mark_spent that also gives the frozen funds back
EscrowMarkSpent_unfreezing(sr_id) ==
    /\ sut = "escrow"
    /\ calls < MaxCalls
    /\ LET r == EM_mark_spent(spend_rights, sr_id)
       IN /\ spend_rights' = r.rights
          /\ balances' =
                IF r.res = "Ok"
                THEN IBM_unfreeze(balances, spend_rights[sr_id].user_id,
                                  spend_rights[sr_id].asset,
                                  spend_rights[sr_id].amount).bal
                ELSE balances
          /\ last' = EscrowCall("mark_spent", sr_id, r.res)
    /\ calls' = calls + 1
    /\ UNCHANGED <<sut, settled, order, current_phase, emergency_lock,
                   total_deposits, total_withdrawals, ops_count>>
    /\ UNCHANGED <<historyVars, matchVars, dummy_sr, limiterVars, riskVars, securityVars>>

\* EscrowManager::mark_spent
EscrowMarkSpent(sr_id) ==
    /\ sut = "escrow"
    /\ calls < MaxCalls
    /\ LET r == EM_mark_spent(spend_rights, sr_id)
       IN /\ spend_rights' = r.rights
          /\ last' = EscrowCall("mark_spent", sr_id, r.res)
    /\ calls' = calls + 1
    /\ UNCHANGED <<sut, balances, settled, order, current_phase, emergency_lock,
                   total_deposits, total_withdrawals, ops_count>>
    /\ UNCHANGED <<historyVars, matchVars, dummy_sr, limiterVars, riskVars, securityVars>>

\* SpendRight::mark_spent on the free-standing SpendRight
DummyMarkSpent ==
    /\ sut = "escrow"
    /\ calls < MaxCalls
    /\ LET r == SR_mark_spent(dummy_sr)
       IN /\ dummy_sr' = r.sr
          /\ last' = EscrowCall("sr_mark_spent", dummy_sr.id, r.res)
    /\ calls' = calls + 1
    /\ UNCHANGED <<sut, ledgerVars, historyVars, matchVars, spend_rights, limiterVars, riskVars, securityVars>>

\* SpendRight::mark_released on the free-standing SpendRight
DummyMarkReleased ==
    /\ sut = "escrow"
    /\ calls < MaxCalls
    /\ LET r == SR_mark_released(dummy_sr)
       IN /\ dummy_sr' = r.sr
          /\ last' = EscrowCall("sr_mark_released", dummy_sr.id, r.res)
    /\ calls' = calls + 1
    /\ UNCHANGED <<sut, ledgerVars, historyVars, matchVars, spend_rights, limiterVars, riskVars, securityVars>>

EscrowInit ==
    /\ sut = "escrow"
    /\ LedgerVarsInit
    /\ MatchVarsInit
    /\ ServiceVarsInit

EscrowNext ==
    \/ \E u \in Users, a \in EscrowAssets, x \in Amounts :
          \/ EscrowDeposit(u, a, x)
          \/ EscrowConsumeFrozen(u, a, x)
          \/ EscrowMint(u, a, x)
    \/ \E sr_id \in RightIds : EscrowRelease(sr_id) \/ EscrowMarkSpent(sr_id)
    \/ DummyMarkSpent
    \/ DummyMarkReleased

SpecEscrow == EscrowInit /\ [][EscrowNext]_vars

-----------------------------------------------------------------------------
(* Properties of the SpendRights and the EscrowManager *)

\* this step is a call of op
EscrowStep(op) == calls' = calls + 1 /\ last'.op = op

\* one SpendRight over a step: it only moves Active -> Spent or Active ->
\* Released, and once it is Spent or Released a call on it fails
MonotonicStep(before, after, ops) ==
    /\ after.state # before.state =>
          before.state = "Active" /\ after.state \in {"Spent", "Released"}
    /\ before.state # "Active" =>
          /\ after.state = before.state
          /\ \A op \in ops :
                EscrowStep(op) /\ last'.arg = before.id
                    => last'.res = "InvalidSpendRight"

\* C12: a SpendRight only ever changes Active -> Spent or Active -> Released;
\* once it is Spent or Released every mark_spent, mark_released or
\* EscrowManager release on it fails with InvalidSpendRight and its state
\* stays as it is
C12_SpendRightMonotonic ==
    [][/\ \A id \in DOMAIN spend_rights :
             /\ id \in DOMAIN spend_rights'
             /\ MonotonicStep(spend_rights[id], spend_rights'[id],
                              {"release", "mark_spent"})
       /\ MonotonicStep(dummy_sr, dummy_sr', {"sr_mark_spent", "sr_mark_released"})
      ]_vars

\* a release was refused on a stored SpendRight that is Spent, and the
\* free-standing SpendRight has left Active too
C12_Witness ==
    /\ sut = "escrow"
    /\ last.op = "release"
    /\ last.res = "InvalidSpendRight"
    /\ last.arg \in DOMAIN spend_rights
    /\ spend_rights[last.arg].state = "Spent"
    /\ dummy_sr.state = "Released"

\* the balance entries other than k are the same before and after the step
OthersUnchanged(k) ==
    \A j \in Keys \ {k} : Get(balances', j) = Get(balances, j)

\* C13: EscrowManager mint is all-or-nothing: if it fails the balances and
\* the stored SpendRights are unchanged; if it succeeds exactly one new
\* SpendRight, in state Active, is stored and exactly its amount has moved
\* from the user's available to the user's frozen balance of the asset
C13_MintAllOrNothing ==
    [][EscrowStep("mint") =>
          LET u == last'.arg[1]
              a == last'.arg[2]
              x == last'.arg[3]
              new == (DOMAIN spend_rights') \ (DOMAIN spend_rights)
          IN IF last'.res # "Ok"
             THEN /\ View(balances') = View(balances)
                  /\ spend_rights' = spend_rights
             ELSE /\ Cardinality(new) = 1
                  /\ \A id \in DOMAIN spend_rights :
                        id \in DOMAIN spend_rights' /\ spend_rights'[id] = spend_rights[id]
                  /\ \A id \in new :
                        /\ spend_rights'[id].state = "Active"
                        /\ spend_rights'[id].user_id = u
                        /\ spend_rights'[id].asset = a
                        /\ spend_rights'[id].amount = x
                  /\ Get(balances', <<u, a>>).available
                        = Get(balances, <<u, a>>).available - x
                  /\ Get(balances', <<u, a>>).frozen
                        = Get(balances, <<u, a>>).frozen + x
                  /\ OthersUnchanged(<<u, a>>)
      ]_vars

\* a mint of a positive amount that succeeded after an earlier SpendRight
\* had been minted
C13_Witness ==
    /\ sut = "escrow"
    /\ last.op = "mint"
    /\ last.res = "Ok"
    /\ last.arg[3] > 0
    /\ Cardinality(DOMAIN spend_rights) = 2

\* C14: EscrowManager release succeeds only on a stored SpendRight that is
\* Active; it then moves exactly the SpendRight's amount from the owner's
\* frozen to the owner's available balance and sets the state to Released;
\* when it fails (unknown id, not Active, InsufficientFrozen) the
\* SpendRights and all balances are unchanged
C14_ReleaseAllOrNothing ==
    [][EscrowStep("release") =>
          LET id == last'.arg
          IN IF last'.res = "Ok"
             THEN /\ id \in DOMAIN spend_rights
                  /\ spend_rights[id].state = "Active"
                  /\ spend_rights' =
                        [spend_rights EXCEPT ![id].state = "Released"]
                  /\ LET k == <<spend_rights[id].user_id, spend_rights[id].asset>>
                         x == spend_rights[id].amount
                     IN /\ Get(balances', k).frozen = Get(balances, k).frozen - x
                        /\ Get(balances', k).available = Get(balances, k).available + x
                        /\ OthersUnchanged(k)
             ELSE /\ last'.res \in {"InvalidSpendRight", "InsufficientFrozen"}
                  /\ spend_rights' = spend_rights
                  /\ View(balances') = View(balances)
      ]_vars

\* a release of an Active SpendRight that failed with InsufficientFrozen
C14_Witness ==
    /\ sut = "escrow"
    /\ last.op = "release"
    /\ last.res = "InsufficientFrozen"
    /\ last.arg \in DOMAIN spend_rights
    /\ spend_rights[last.arg].state = "Active"
    /\ spend_rights[last.arg].amount > 0

\* C15: EscrowManager mark_spent changes no balance, whether it succeeds or
\* fails with InvalidSpendRight
C15_MarkSpentKeepsBalances ==
    [][EscrowStep("mark_spent") =>
          /\ View(balances') = View(balances)
          /\ last'.res \in {"Ok", "InvalidSpendRight"}
      ]_vars

\* a mark_spent that succeeded on a SpendRight whose amount is still frozen
C15_Witness ==
    /\ sut = "escrow"
    /\ last.op = "mark_spent"
    /\ last.res = "Ok"
    /\ LET sr == spend_rights[last.arg]
       IN /\ sr.state = "Spent"
          /\ sr.amount > 0
          /\ Get(balances, <<sr.user_id, sr.asset>>).frozen >= sr.amount


-----------------------------------------------------------------------------
(* The buffer specification: orders are pushed into one pending buffer, the *)
(* buffer is sealed, and callers keep pushing and sealing afterwards. The   *)
(* core buffer is kept twice (two nodes fed the same pushes); the ingress   *)
(* buffer is drained into BatchSealer::seal once it is sealed.              *)

\* the sequence numbers a submitter may already have put on an order
CallerSequences == 0 .. 1

\* the orders pushed into the buffer: one unit to buy or to sell, at a limit
\* price or at market
BufferShapes ==
    {s \in OrderShapes : s.user_id = "alice" /\ s.quantity = 1 /\ s.order_type # "Cancel"}

\* the outcome of a call on a buffer; seq is the Ok(seq) of the core push
BufferCall(op, res, seq) == [op |-> op, res |-> res, seq |-> seq]

\* core PendingBuffer::push on the buffer of every node; Order::dummy_limit
\* and the tests' make_order leave sequence at 0
PendingBufferPush(shape) ==
    /\ sut = "core_buffer"
    /\ LET o == NewOrder(shape, Len(core_buffers[1].orders), 0)
           r == PB_push(core_buffers[1], o)
       IN /\ core_buffers' = [i \in 1 .. MaxRuns |-> PB_push(core_buffers[i], o).buf]
          /\ last' = BufferCall("push", r.res, IF r.res = "Ok" THEN Some(r.seq) ELSE None)
    /\ UNCHANGED <<sut, calls, balances, settled, order, current_phase, emergency_lock,
                   total_deposits, total_withdrawals, ops_count, historyVars,
                   serviceVars, ingress_buffer, sealed_batch, results, now>>

\* core PendingBuffer::seal on the buffer of every node
PendingBufferSeal ==
    /\ sut = "core_buffer"
    /\ core_buffers' = [i \in 1 .. MaxRuns |-> PB_seal(core_buffers[i]).buf]
    /\ last' = BufferCall("seal", PB_seal(core_buffers[1]).res, None)
    /\ UNCHANGED <<sut, calls, balances, settled, order, current_phase, emergency_lock,
                   total_deposits, total_withdrawals, ops_count, historyVars,
                   serviceVars, ingress_buffer, sealed_batch, results, now>>

\* ingress PendingBuffer::push of an order carrying the sequence number seq
IngressBufferPush(shape, seq) ==
    /\ sut = "ingress_buffer"
    /\ LET r == IPB_push(ingress_buffer,
                         NewOrder(shape, Len(ingress_buffer.orders), seq))
       IN /\ ingress_buffer' = r.buf
          /\ last' = BufferCall("push", r.res, None)
    /\ UNCHANGED <<sut, calls, balances, settled, order, current_phase, emergency_lock,
                   total_deposits, total_withdrawals, ops_count, historyVars,
                   serviceVars, core_buffers, sealed_batch, results, now>>

\* ingress PendingBuffer::seal
IngressBufferSeal ==
    /\ sut = "ingress_buffer"
    /\ ingress_buffer' = IPB_seal(ingress_buffer).buf
    /\ last' = BufferCall("seal", IPB_seal(ingress_buffer).res, None)
    /\ UNCHANGED <<sut, calls, balances, settled, order, current_phase, emergency_lock,
                   total_deposits, total_withdrawals, ops_count, historyVars,
                   serviceVars, core_buffers, sealed_batch, results, now>>

\* ingress PendingBuffer::drain, and BatchSealer::seal on what it returned
IngressBufferDrain ==
    /\ sut = "ingress_buffer"
    /\ sealed_batch = None
    /\ LET d == IPB_drain(ingress_buffer)
       IN /\ last' = BufferCall("drain", d.res, None)
          /\ IF d.res # "Ok"
             THEN UNCHANGED <<ingress_buffer, sealed_batch>>
             ELSE /\ ingress_buffer' = d.buf
                  /\ sealed_batch' = Some(BatchSealer_seal(1, TheBatchId, d.orders, now))
    /\ UNCHANGED <<sut, calls, balances, settled, order, current_phase, emergency_lock,
                   total_deposits, total_withdrawals, ops_count, historyVars,
                   serviceVars, core_buffers, results, now>>

SealInit ==
    /\ sut \in {"core_buffer", "ingress_buffer"}
    /\ LedgerVarsInit
    /\ MatchVarsInit
    /\ ServiceVarsInit

SealNext ==
    \/ \E shape \in BufferShapes : PendingBufferPush(shape)
    \/ PendingBufferSeal
    \/ \E shape \in BufferShapes, seq \in CallerSequences : IngressBufferPush(shape, seq)
    \/ IngressBufferSeal
    \/ IngressBufferDrain

SpecSeal == SealInit /\ [][SealNext]_vars


-----------------------------------------------------------------------------
(* Properties of the pending buffers *)

\* every arrangement of the elements of a sequence
Arrangements(s) ==
    {[i \in 1 .. Len(s) |-> s[f[i]]] : f \in Permutations(1 .. Len(s))}

C17_PushAssignsSequence ==
    [][(sut = "core_buffer" /\ last'.op = "push")
       => LET before == core_buffers[1]
              after == core_buffers'[1]
          IN IF last'.res = "Ok"
             THEN /\ last'.seq = Some(Len(before.orders))
                  /\ Len(after.orders) = Len(before.orders) + 1
                  /\ \A i \in 1 .. Len(after.orders) :
                        /\ after.orders[i].sequence = i - 1
                        /\ after.orders[i].epoch_id = Some(after.batch_id)
             ELSE /\ after.sequence_counter = before.sequence_counter
                  /\ after.orders = before.orders]_vars

\* a full buffer, filled by pushes that returned 0, 1, .., has rejected a push
C17_Witness ==
    /\ sut = "core_buffer"
    /\ last = BufferCall("push", "BufferFull", None)
    /\ core_buffers[1].sequence_counter = MaxOrders
    /\ ~core_buffers[1].sealed

\* C18: sealing is deterministic. The hash depends on the batch id and the set
\* of orders, not on their arrangement: two core buffers with the same batch
\* id fed the same pushes carry the same hash, a core buffer seals to the
\* same hash however its orders are arranged, and BatchSealer::seal returns
\* the same batch_hash and the same order list for every arrangement of the
\* same orders
C18_SealDeterministic ==
    /\ sut = "core_buffer"
       => /\ \A i, j \in 1 .. MaxRuns :
                core_buffers[i].batch_hash = core_buffers[j].batch_hash
          /\ ~core_buffers[1].sealed
             => \A p \in Arrangements(core_buffers[1].orders) :
                   PB_seal([core_buffers[1] EXCEPT !.orders = p]).hash
                   = PB_seal(core_buffers[1]).hash
    /\ sut = "ingress_buffer"
       => \A p \in Arrangements(ingress_buffer.orders) :
             LET a == BatchSealer_seal(1, TheBatchId, ingress_buffer.orders, now)
                 b == BatchSealer_seal(1, TheBatchId, p, now)
             IN a.batch_hash = b.batch_hash /\ a.orders = b.orders

\* a batch was sealed from three orders of which two carry the same sequence
\* number, and sealing moved the order pushed first to the end
C18_Witness ==
    /\ sut = "ingress_buffer"
    /\ sealed_batch # None
    /\ LET os == Unwrap(sealed_batch).orders
       IN /\ Len(os) = 3
          /\ os[1].sequence = os[2].sequence
          /\ os[3].id = 0


-----------------------------------------------------------------------------
(* openmatch-settlement WithdrawLock (withdraw_lock.rs), and the withdraw    *)
(* lock specification: phase changes, emergency locks and withdrawals on    *)
(* the core SecuredBalanceManager or on the settlement WithdrawLock         *)

\* enum EpochPhase of openmatch-types
EpochPhases == {"Collect", "Seal", "Match", "Finalize"}

\* WithdrawLock::withdrawals_allowed
withdrawals_allowed(phase) == phase \in {"Collect", "Seal"}

\* WithdrawLock::check_withdraw
check_withdraw(phase) ==
    IF withdrawals_allowed(phase) THEN "Ok" ELSE "WithdrawLockedDuringSettle"

\* settlement WithdrawLock::set_phase
SettlementLockSetPhase(phase) ==
    /\ sut = "settlement_lock"
    /\ calls < MaxCalls
    /\ current_phase' = phase
    /\ last' = Call("set_phase", "Ok")
    /\ calls' = calls + 1
    /\ UNCHANGED <<sut, balances, settled, order, emergency_lock, total_deposits,
                   total_withdrawals, ops_count, historyVars, matchVars, serviceVars>>

\* settlement WithdrawLock::check_withdraw
SettlementLockCheckWithdraw ==
    /\ sut = "settlement_lock"
    /\ calls < MaxCalls
    /\ last' = Call("check_withdraw", check_withdraw(current_phase))
    /\ calls' = calls + 1
    /\ UNCHANGED <<sut, balances, settled, order, current_phase, emergency_lock,
                   total_deposits, total_withdrawals, ops_count, historyVars,
                   matchVars, serviceVars>>

LockInit ==
    /\ sut \in {"core", "settlement_lock"}
    /\ LedgerVarsInit
    /\ MatchVarsInit
    /\ ServiceVarsInit

LockNext ==
    \/ \E x \in Amounts : SecuredDeposit("alice", Market.quote, x)
    \/ \E x \in Amounts : SecuredWithdraw("alice", Market.quote, x)
    \/ \E phase \in Phases : SecuredSetPhase(phase)
    \/ \E locked \in BOOLEAN : SecuredSetEmergencyLock(locked)
    \/ \E phase \in EpochPhases : SettlementLockSetPhase(phase)
    \/ SettlementLockCheckWithdraw

SpecLock == LockInit /\ [][LockNext]_vars

\* C19: after any set_phase and emergency-lock calls, a withdrawal is rejected
\* with WithdrawLockedDuringSettle exactly when the emergency lock is set or
\* the phase is Match or Finalize, and the lock permits it when the phase is
\* Collect or Seal and no emergency lock is set (core and settlement lock)
C19_WithdrawLockedExactly ==
    last.op \in {"withdraw", "check_withdraw"}
    => /\ (last.res = "WithdrawLockedDuringSettle")
          <=> (emergency_lock \/ current_phase \in {"Match", "Finalize"})
       /\ (~emergency_lock /\ current_phase \in {"Collect", "Seal"})
          => last.res # "WithdrawLockedDuringSettle"

\* the same, on the settlement WithdrawLock alone
SettlementLockExact == sut = "settlement_lock" => C19_WithdrawLockedExactly


-----------------------------------------------------------------------------
(* The rate limiter specification: users submit orders at times that never  *)
(* run backwards, and the epoch controller resets the limiter               *)

\* the outcome of a call on the limiter
LimiterCall(op, user_id, res) == [op |-> op, user |-> user_id, res |-> res]

\* OrderRateLimiter::check_and_record(user_id, now_ms)
LimiterCheckAndRecord(user_id, now_ms) ==
    /\ sut = "limiter"
    /\ calls < MaxCalls
    /\ now_ms >= last_ms[user_id]
    /\ LET r == RL_check_and_record(windows, epoch_counts, WindowMs, MaxPerWindow,
                                    MaxPerEpoch, user_id, now_ms)
       IN /\ windows' = r.windows
          /\ epoch_counts' = r.epoch_counts
          /\ last' = LimiterCall("check_and_record", user_id, r.res)
          /\ accepted_log' =
                IF r.res = "Ok" THEN [accepted_log EXCEPT ![user_id] = Append(@, now_ms)]
                ELSE accepted_log
          /\ epoch_log' =
                IF r.res = "Ok" THEN [epoch_log EXCEPT ![user_id] = Append(@, now_ms)]
                ELSE epoch_log
    /\ last_ms' = [last_ms EXCEPT ![user_id] = now_ms]
    /\ calls' = calls + 1
    /\ UNCHANGED <<sut, balances, settled, order, current_phase, emergency_lock,
                   total_deposits, total_withdrawals, ops_count, historyVars,
                   matchVars, escrowVars, securityVars, riskVars>>

\* OrderRateLimiter::reset_epoch
LimiterResetEpoch ==
    /\ sut = "limiter"
    /\ calls < MaxCalls
    /\ epoch_counts' = <<>>
    /\ windows' = <<>>
    /\ epoch_log' = [u \in Users |-> <<>>]
    /\ last' = LimiterCall("reset_epoch", "alice", "Ok")
    /\ calls' = calls + 1
    /\ UNCHANGED <<sut, balances, settled, order, current_phase, emergency_lock,
                   total_deposits, total_withdrawals, ops_count, historyVars,
                   matchVars, escrowVars, securityVars, riskVars, accepted_log, last_ms>>

LimiterInit ==
    /\ sut = "limiter"
    /\ LedgerVarsInit
    /\ MatchVarsInit
    /\ ServiceVarsInit

LimiterNext ==
    \/ \E u \in Users, t \in 0 .. MaxTimeMs : LimiterCheckAndRecord(u, t)
    \/ LimiterResetEpoch

SpecLimiter == LimiterInit /\ [][LimiterNext]_vars

-----------------------------------------------------------------------------
(* Properties of the rate limiter *)

\* the number of timestamps of a log that lie in the interval [a, a + length]
CountWithin(log, a, length) ==
    Cardinality({i \in 1 .. Len(log) : log[i] >= a /\ log[i] <= a + length})

\* no interval of length window_ms holds more than max_per_window timestamps
WindowLimitKept(log) ==
    \A a \in 0 .. MaxTimeMs : CountWithin(log, a, WindowMs) <= MaxPerWindow

\* the timestamps kept for a user
WindowOf(w, user_id) == IF user_id \in DOMAIN w THEN w[user_id] ELSE <<>>

\* s is what is left of t after popping from its front
IsSuffix(s, t) == \E k \in 0 .. Len(t) : s = SubSeq(t, k + 1, Len(t))

\* a call that was rejected is not recorded: no epoch count moves and no
\* timestamp is added to any window
RejectedNotRecorded ==
    (last'.op = "check_and_record" /\ last'.res # "Ok")
    => /\ last'.res \in {"OrderFloodDetected", "RateLimitExceeded"}
       /\ \A u \in Users :
             /\ epoch_count(epoch_counts', u) = epoch_count(epoch_counts, u)
             /\ IsSuffix(WindowOf(windows', u), WindowOf(windows, u))

\* the calls accepted since the last reset_epoch are within the epoch limit,
\* and epoch_count reports their number
EpochLimitKept ==
    \A u \in Users :
        /\ Len(epoch_log[u]) <= MaxPerEpoch
        /\ epoch_count(epoch_counts, u) = Len(epoch_log[u])

\* C20 (as stated): with non-decreasing now_ms, the calls accepted for a user
\* since the last reset_epoch never exceed max_per_epoch, the accepted calls
\* whose timestamps lie within any interval of length window_ms never exceed
\* max_per_window, and a rejected call is not recorded
C20_NeverExceedsEitherLimit ==
    [][/\ EpochLimitKept'
       /\ \A u \in Users : WindowLimitKept(accepted_log[u])'
       /\ RejectedNotRecorded]_vars

\* C20 (amended): the window limit holds for the calls accepted since the
\* last reset_epoch, which empties the windows together with the epoch counts
C20_LimitsSinceReset ==
    [][/\ EpochLimitKept'
       /\ \A u \in Users : WindowLimitKept(epoch_log[u])'
       /\ RejectedNotRecorded]_vars

\* after a reset_epoch that followed accepted calls, alice filled her window
\* again and her next call has been rejected with RateLimitExceeded
C20_Witness ==
    /\ sut = "limiter"
    /\ last = LimiterCall("check_and_record", "alice", "RateLimitExceeded")
    /\ Len(epoch_log["alice"]) = MaxPerWindow
    /\ Len(accepted_log["alice"]) > Len(epoch_log["alice"])


-----------------------------------------------------------------------------
(* The security specification: proofs with nonces arrive at a NonceTracker  *)
(* that is cleared now and then, or prices arrive at a PriceSanityChecker   *)
(* whose reference prices are updated now and then                          *)

\* the outcome of a call on the NonceTracker
NonceCall(op, node_id, nonce, res) ==
    [op |-> op, node |-> node_id, nonce |-> nonce, res |-> res]

\* the outcome of a call on the PriceSanityChecker
PriceCall(op, market, price, res) ==
    [op |-> op, market |-> market, price |-> price, res |-> res]

\* NonceTracker::check_and_record(node_id, nonce)
NonceCheckAndRecord(node_id, nonce) ==
    /\ sut = "nonce_tracker"
    /\ calls < MaxCalls
    /\ LET r == NT_check_and_record(used_nonces, MaxPerNode, node_id, nonce)
       IN /\ used_nonces' = r.used
          /\ last' = NonceCall("check_and_record", node_id, nonce, r.res)
          /\ nonce_log' = IF r.res = "Ok"
                          THEN [nonce_log EXCEPT ![node_id] = @ \cup {nonce}]
                          ELSE nonce_log
    /\ calls' = calls + 1
    /\ UNCHANGED <<sut, ledgerVars, historyVars, matchVars, escrowVars, limiterVars, riskVars,
                   reference_prices>>

\* NonceTracker::clear_node(node_id)
NonceClearNode(node_id) ==
    /\ sut = "nonce_tracker"
    /\ calls < MaxCalls
    /\ used_nonces' = NT_clear_node(used_nonces, node_id)
    /\ nonce_log' = [nonce_log EXCEPT ![node_id] = {}]
    /\ last' = NonceCall("clear_node", node_id, 0, "Ok")
    /\ calls' = calls + 1
    /\ UNCHANGED <<sut, ledgerVars, historyVars, matchVars, escrowVars, limiterVars, riskVars,
                   reference_prices>>

\* NonceTracker::clear_all
NonceClearAll ==
    /\ sut = "nonce_tracker"
    /\ calls < MaxCalls
    /\ used_nonces' = NT_clear_all(used_nonces)
    /\ nonce_log' = [n \in Nodes |-> {}]
    /\ last' = NonceCall("clear_all", "n1", 0, "Ok")
    /\ calls' = calls + 1
    /\ UNCHANGED <<sut, ledgerVars, historyVars, matchVars, escrowVars, limiterVars, riskVars,
                   reference_prices>>

\* PriceSanityChecker::update_reference(market, price)
PriceUpdateReference(market, price) ==
    /\ sut = "price_sanity"
    /\ reference_prices' = PS_update_reference(reference_prices, market, price)
    /\ last' = PriceCall("update_reference", market, price, "Ok")
    /\ UNCHANGED <<sut, calls, ledgerVars, historyVars, matchVars, escrowVars,
                   limiterVars, riskVars, used_nonces, nonce_log>>

\* PriceSanityChecker::check_price(market, price)
PriceCheck(market, price) ==
    /\ sut = "price_sanity"
    /\ last' = PriceCall("check_price", market, price,
                         PS_check_price(reference_prices, MaxDeviation, market, price))
    /\ UNCHANGED <<sut, calls, ledgerVars, historyVars, matchVars, escrowVars,
                   limiterVars, riskVars, securityVars>>

SecurityInit ==
    /\ sut \in {"nonce_tracker", "price_sanity"}
    /\ LedgerVarsInit
    /\ MatchVarsInit
    /\ ServiceVarsInit

SecurityNext ==
    \/ \E n \in Nodes, x \in 0 .. MaxNonce : NonceCheckAndRecord(n, x)
    \/ \E n \in Nodes : NonceClearNode(n)
    \/ NonceClearAll
    \/ \E m \in Markets, p \in CheckedPrices : PriceUpdateReference(m, p)
    \/ \E m \in Markets, p \in CheckedPrices : PriceCheck(m, p)

SpecSecurity == SecurityInit /\ [][SecurityNext]_vars

-----------------------------------------------------------------------------
(* Properties of the NonceTracker and the PriceSanityChecker *)

\* the nonces the tracker retains for a node
Retained(used, node_id) == IF node_id \in DOMAIN used THEN used[node_id] ELSE {}

\* C21: NonceTracker accepts each (node, nonce) pair at most once between
\* clears: check_and_record returns NonceReplay when the nonce was already
\* accepted for the node, RateLimitExceeded for a fresh nonce when the node
\* already holds max_per_node nonces, and Ok otherwise; no node ever retains
\* more than max_per_node nonces, and a call for one node leaves the nonces
\* of the other nodes alone
C21_NonceAcceptedOnce ==
    [][(sut = "nonce_tracker" /\ last'.op = "check_and_record")
       => LET n == last'.node
              x == last'.nonce
          IN /\ last'.res =
                   (IF x \in nonce_log[n] THEN "NonceReplay"
                    ELSE IF Cardinality(nonce_log[n]) >= MaxPerNode
                    THEN "RateLimitExceeded" ELSE "Ok")
             /\ \A m \in Nodes :
                   /\ Cardinality(Retained(used_nonces', m)) <= MaxPerNode
                   /\ Retained(used_nonces', m) = nonce_log'[m]
                   /\ m # n => Retained(used_nonces', m) = Retained(used_nonces, m)]_vars

\* a nonce is replayed on a node that is at its quota, while the other node
\* holds nonces of its own
C21_Witness ==
    /\ sut = "nonce_tracker"
    /\ last.op = "check_and_record" /\ last.node = "n1" /\ last.res = "NonceReplay"
    /\ Cardinality(Retained(used_nonces, "n1")) = MaxPerNode
    /\ Retained(used_nonces, "n2") # {}

-----------------------------------------------------------------------------
(* Further properties of the two matchers, checked under SpecMatch *)

\* the non-Cancel buys and sells of a batch
BuysOf(orders) == {o \in Range(orders) : o.side = "Buy" /\ o.order_type # "Cancel"}
SellsOf(orders) == {o \in Range(orders) : o.side = "Sell" /\ o.order_type # "Cancel"}

\* the highest buy is strictly below the lowest sell, or one side is empty
NoCrossing(orders) ==
    \A b \in BuysOf(orders), s \in SellsOf(orders) :
        effective_price(b) < effective_price(s)

\* C24: when the highest buy effective price is strictly below the lowest
\* sell effective price, or one side has no non-Cancel orders, the run on the
\* sealed batch returns a bundle with no trades and clearing_price None whose
\* remaining_orders holds every non-Cancel order of the batch exactly once,
\* its remaining quantity unchanged (core BatchMatcher and matchcore)
C24_NoCrossingNoTrades ==
    \A i \in 1 .. Len(results) :
        (results[i].res # "MatchingFailed" /\ NoCrossing(InputOrders(i)))
        => /\ results[i].res = "Ok"
           /\ results[i].trades = <<>>
           /\ results[i].clearing_price = None
           /\ \A o \in BuysOf(InputOrders(i)) \cup SellsOf(InputOrders(i)) :
                 LET at == {k \in 1 .. Len(results[i].remaining_orders) :
                               results[i].remaining_orders[k].id = o.id}
                 IN /\ Cardinality(at) = 1
                    /\ \A k \in at :
                          results[i].remaining_orders[k].remaining_qty = o.remaining_qty

\* a batch with a buy below a sell and a Cancel order has been matched
C24_Witness ==
    \E i \in Bundles :
        /\ NoCrossing(InputOrders(i))
        /\ BuysOf(InputOrders(i)) # {} /\ SellsOf(InputOrders(i)) # {}
        /\ \E o \in Range(InputOrders(i)) : o.order_type = "Cancel"
        /\ Len(results[i].remaining_orders) = 2

\* PendingBuffer::push of each order of a list, in the order of the list,
\* into a new buffer
RECURSIVE PushAll(_, _)
PushAll(buf, orders) ==
    IF orders = <<>> THEN buf
    ELSE PushAll(PB_push(buf, Head(orders)).buf, Tail(orders))

\* what the core pipeline makes of orders pushed in the given order
Outcome(orders) ==
    LET r == match_batch(1, PB_seal(PushAll(PB_new(TheBatchId), orders)).buf, 0)
    IN [clearing_price |-> r.clearing_price, trades |-> Len(r.trades),
        traded |-> TradedQuantity(r.trades), remaining |-> Len(r.remaining_orders)]

\* C25: in the core pipeline, pushing the same orders in a different order
\* does not change the clearing price, the number of trades, the total
\* traded quantity or the number of remaining orders
C25_PushOrderIrrelevant ==
    (sut = "core_matcher" /\ ~core_buffers[1].sealed)
    => \A p \in Arrangements(core_buffers[1].orders) :
          Outcome(p) = Outcome(core_buffers[1].orders)

\* the eligible buys and sells of run i at its clearing price
EligibleBuys(i) ==
    {b \in BuysOf(InputOrders(i)) :
        effective_price(b) >= Unwrap(results[i].clearing_price)}
EligibleSells(i) ==
    {s \in SellsOf(InputOrders(i)) :
        effective_price(s) <= Unwrap(results[i].clearing_price)}

\* C30: skipping a self-trade pair does not block legitimate matching: if at
\* the clearing price the batch holds an eligible buy and an eligible sell
\* of different users, the bundle has at least one trade (core BatchMatcher
\* and matchcore)
C30_SelfTradeSkipDoesNotBlock ==
    \A i \in Bundles :
        (/\ results[i].clearing_price # None
         /\ \E b \in EligibleBuys(i), s \in EligibleSells(i) : b.user_id # s.user_id)
        => results[i].trades # <<>>

\* the same, for the core BatchMatcher alone and for matchcore alone
CoreSkipDoesNotBlock == sut = "core_matcher" => C30_SelfTradeSkipDoesNotBlock
MatchcoreSkipDoesNotBlock == sut = "matchcore" => C30_SelfTradeSkipDoesNotBlock


-----------------------------------------------------------------------------
(* Contracts of the ledger operations, applied in every reachable state *)

\* a user who takes no part in the calls under test, holding funds
Bystander == "carol"
AllKeys == (Users \cup {Bystander}) \X Assets

\* the ledger with one entry of the bystander (available 1, frozen 1) and the
\* bystander's other asset absent
WithBystander(bal) == Put(bal, <<Bystander, "BTC">>, [available |-> 1, frozen |-> 1])

\* the entry of key k after a settlement of t as the specification states it,
\* from the entry e before it
SettledEntry(e, k, t) ==
    LET buyer == IF t.taker_side = "Buy" THEN t.taker_user_id ELSE t.maker_user_id
        seller == IF t.taker_side = "Buy" THEN t.maker_user_id ELSE t.taker_user_id
    IN IF k = <<buyer, Market.quote>> THEN [e EXCEPT !.frozen = @ - t.quote_amount]
       ELSE IF k = <<buyer, Market.base>> THEN [e EXCEPT !.available = @ + t.quantity]
       ELSE IF k = <<seller, Market.base>> THEN [e EXCEPT !.frozen = @ - t.quantity]
       ELSE IF k = <<seller, Market.quote>>
       THEN [e EXCEPT !.available = @ + t.quote_amount]
       ELSE e

\* settle_trade of the ledger under test, applied to bal
SettleOn(bal, t) ==
    IF sut = "core"
    THEN SBM_settle_trade(bal, settled, order, IdempotencyCacheSize, t, Market)
    ELSE T1_settle_trade(bal, settled, order, IdempotencyCacheSize, t)

\* C22: a settle_trade that returns Ok (core and Tier1) changes exactly four
\* components: buyer frozen[quote] - quote_amount, buyer available[base] +
\* quantity, seller frozen[base] - quantity, seller available[quote] +
\* quote_amount, the buyer being the taker when taker_side = Buy and the maker
\* otherwise; every other (user, asset) entry, a bystander's included, is
\* unchanged.
C22_SettleChangesFourComponents ==
    sut \in {"core", "tier1"} =>
        \A t \in Trades :
            LET bal == WithBystander(balances)
                r == SettleOn(bal, t)
            IN r.res = "Ok" =>
                  \A k \in AllKeys : Get(r.bal, k) = SettledEntry(Get(bal, k), k, t)

\* C22 happens: a settle_trade has just returned Ok and the ledger shows its
\* four effects: one user holds the base, the other the quote, and nothing is
\* frozen any more
C22_Witness ==
    /\ last = Call("settle_trade", "Ok")
    /\ settled_ok # {}
    /\ \E b, s \in Users :
          /\ b # s
          /\ Get(balances, <<b, Market.base>>) = [available |-> 1, frozen |-> 0]
          /\ Get(balances, <<s, Market.quote>>) = [available |-> 1, frozen |-> 0]
          /\ Get(balances, <<b, Market.quote>>) = ZeroEntry
          /\ Get(balances, <<s, Market.base>>) = ZeroEntry

\* the balance operations each ledger offers for one (user, asset)
BalanceOps ==
    IF sut = "core" THEN {"deposit", "withdraw", "freeze", "unfreeze"}
    ELSE IF sut = "tier1" THEN {"deposit", "freeze"}
    ELSE {"deposit", "freeze", "unfreeze"}

\* the operation op of the ledger under test, applied to bal
BalanceOp(op, bal, u, a, x) ==
    CASE sut = "core" /\ op = "deposit" -> BM_deposit(bal, u, a, x)
      [] sut = "core" /\ op = "withdraw" -> BM_withdraw(bal, u, a, x)
      [] sut = "core" /\ op = "freeze" -> BM_freeze(bal, u, a, x)
      [] sut = "core" /\ op = "unfreeze" -> BM_unfreeze(bal, u, a, x)
      [] sut = "tier1" /\ op = "deposit" -> T1_deposit(bal, u, a, x)
      [] sut = "tier1" /\ op = "freeze" -> T1_freeze(bal, u, a, x)
      [] sut = "ingress" /\ op = "deposit" -> IBM_deposit(bal, u, a, x)
      [] sut = "ingress" /\ op = "freeze" -> IBM_freeze(bal, u, a, x)
      [] sut = "ingress" /\ op = "unfreeze" -> IBM_unfreeze(bal, u, a, x)

\* C23: per-user fund segregation: a deposit, withdraw, freeze or unfreeze
\* call for (u, a), whether it returns Ok or an error, leaves the available
\* and frozen balance of every other user and of every other asset as they
\* were; a user whose balance of a is zero cannot withdraw or unfreeze any
\* positive amount of a, whatever other users hold.
C23_FundSegregation ==
    \A op \in BalanceOps, u \in Users, a \in Assets, x \in Amounts :
        LET r == BalanceOp(op, balances, u, a, x)
        IN /\ \A k \in Keys : k # <<u, a>> => Get(r.bal, k) = Get(balances, k)
           /\ (/\ op \in {"withdraw", "unfreeze"}
               /\ x > 0
               /\ Get(balances, <<u, a>>) = ZeroEntry) => r.res # "Ok"

\* C23 happens: on the core ledger a withdraw has just failed for lack of
\* balance while a user holds nothing of an asset that another user holds
\* available and frozen
C23_Witness ==
    /\ sut = "core"
    /\ last = Call("withdraw", "InsufficientBalance")
    /\ \E u, v \in Users, a \in Assets :
          /\ u # v
          /\ Get(balances, <<u, a>>) = ZeroEntry
          /\ Get(balances, <<v, a>>).available >= 1
          /\ Get(balances, <<v, a>>).frozen >= 1

\* C26: on every ledger that has both operations (core and ingress), a
\* freeze(u, a, x) that returns Ok, immediately followed by unfreeze(u, a, x),
\* is followed by Ok and leaves available and frozen of (u, a) exactly as they
\* were before the freeze.
C26_FreezeUnfreezeRestores ==
    sut \in {"core", "ingress"} =>
        \A u \in Users, a \in Assets, x \in Amounts :
            LET f == BalanceOp("freeze", balances, u, a, x)
                g == BalanceOp("unfreeze", f.bal, u, a, x)
            IN f.res = "Ok" =>
                  /\ g.res = "Ok"
                  /\ Get(g.bal, <<u, a>>) = Get(balances, <<u, a>>)

\* the same on the ledgers whose entries are all non-negative: the core
\* ledger always, the ingress ledger as long as no negative amount was passed
FreezeUnfreezeRestoresNonNegative ==
    (/\ sut \in {"core", "ingress"}
     /\ \A k \in DOMAIN balances :
           balances[k].available >= 0 /\ balances[k].frozen >= 0) =>
        \A u \in Users, a \in Assets, x \in Amounts :
            LET f == BalanceOp("freeze", balances, u, a, x)
                g == BalanceOp("unfreeze", f.bal, u, a, x)
            IN f.res = "Ok" =>
                  /\ g.res = "Ok"
                  /\ Get(g.bal, <<u, a>>) = Get(balances, <<u, a>>)

\* C27: on SecuredBalanceManager, verify_supply_conservation returns Ok in
\* exactly the states in which, for every asset, the sum over the users of
\* available + frozen equals the recorded deposits minus the recorded
\* withdrawals, and SupplyInvariantViolation in the others.
C27_VerifyExact ==
    sut = "core" =>
        (verify_supply_conservation(balances, total_deposits, total_withdrawals) = "Ok"
            <=> \A a \in Assets :
                   SumTotals(balances, a, Users) =
                      total_deposits[a] - total_withdrawals[a])

\* the funds a settlement of t needs are frozen: the buyer's quote amount and
\* the seller's base quantity
FundsFrozenFor(t) ==
    /\ Get(balances, <<BuyerOf(t), Market.quote>>).frozen >= t.quote_amount
    /\ Get(balances, <<SellerOf(t), Market.base>>).frozen >= t.quantity

\* C29: on SecuredBalanceManager and Tier1Settler only completed settlements
\* are recorded by the idempotency guard: a settle_trade of a trade whose id
\* no settle_trade has completed for (earlier attempts having failed with
\* InsufficientFrozen), made once the missing funds are frozen, is not
\* rejected with TradeAlreadySettled.
C29_FailedSettleNotRecorded ==
    sut \in {"core", "tier1"} =>
        \A t \in Trades :
            (t.id \notin settled_ok /\ FundsFrozenFor(t)) =>
                SettleOn(balances, t).res # "TradeAlreadySettled"

-----------------------------------------------------------------------------
(* Further properties of the two matchers *)

\* the remaining quantity of the Market orders of a sorted side
MarketQty(side_orders) ==
    LET IsMarket(o) == o.order_type = "Market"
    IN SumQty(SelectSeq(side_orders, IsMarket))

\* C31: whenever the core compute_clearing_price returns a price, it is the
\* limit price of some Limit order of the input (never the 0 of a market
\* sell, never the sentinel of a market buy), and the market orders count in
\* demand and supply at every candidate price.
C31_ClearingPriceIsLimitPrice ==
    sut = "core_matcher" =>
        \A i \in Bundles :
            LET buys == CoreBuys(InputOrders(i))
                sells == CoreSells(InputOrders(i))
            IN /\ results[i].clearing_price # None =>
                     \E o \in Range(InputOrders(i)) :
                        o.order_type = "Limit" /\ o.price = results[i].clearing_price
               /\ \A p \in PriceSet(buys, sells) :
                     /\ Demand(buys, p) >= MarketQty(buys)
                     /\ Supply(sells, p) >= MarketQty(sells)

\* the same for the batches in which a Limit order is present, to tell the
\* all-market batch from the tie-break taking the market sell's 0
ClearingPriceIsLimitPriceWithLimit ==
    sut = "core_matcher" =>
        \A i \in Bundles :
            (/\ results[i].clearing_price # None
             /\ \E o \in Range(InputOrders(i)) : o.order_type = "Limit")
            => \E o \in Range(InputOrders(i)) :
                  o.order_type = "Limit" /\ o.price = results[i].clearing_price

\* the buy (taker) and the sell (maker) order of the k-th trade of bundle i
TakerOrder(i, k) == OrderOf(InputOrders(i), results[i].trades[k].taker_order_id)
MakerOrder(i, k) == OrderOf(InputOrders(i), results[i].trades[k].maker_order_id)

\* the trades of bundle i follow price-time priority on both sides
PriceTimePriority(i) ==
    \A k, l \in 1 .. Len(results[i].trades) :
        k < l =>
            /\ ~BuysBefore(TakerOrder(i, l), TakerOrder(i, k))
            /\ ~SellsBefore(MakerOrder(i, l), MakerOrder(i, k))

\* C32: in every bundle of both matchers the buy orders of successive trades
\* appear by effective price descending, then sequence ascending, and the
\* sell orders by effective price ascending, then sequence ascending.
C32_PriceTimePriority ==
    \A i \in Bundles : PriceTimePriority(i)

\* the same on the core matcher alone
CorePriceTimePriority ==
    sut = "core_matcher" => \A i \in Bundles : PriceTimePriority(i)

\* the quantity of the trades that reference the order id, as taker or maker
RECURSIVE FilledQty(_, _)
FilledQty(trades, id) ==
    IF trades = <<>> THEN 0
    ELSE (IF Head(trades).taker_order_id = id \/ Head(trades).maker_order_id = id
          THEN Head(trades).quantity ELSE 0) + FilledQty(Tail(trades), id)

\* the positions of remaining_orders of bundle i that hold the order id
RemainingEntries(i, id) ==
    {k \in 1 .. Len(results[i].remaining_orders) : results[i].remaining_orders[k].id = id}

\* C33: fill accounting: for every non-Cancel order of a matched batch the
\* quantities of the trades that reference it sum to its remaining quantity
\* before matching minus its remaining quantity after, which is between 0 and
\* the original quantity; remaining_orders holds exactly the non-Cancel orders
\* with a positive remaining quantity after matching, each once, with that
\* quantity.
C33_FillAccounting ==
    \A i \in Bundles :
        /\ \A o \in Range(InputOrders(i)) :
              LET after == o.remaining_qty - FilledQty(results[i].trades, o.id)
                  entries == RemainingEntries(i, o.id)
              IN IF o.order_type = "Cancel" THEN entries = {}
                 ELSE /\ 0 <= after /\ after <= o.quantity
                      /\ Cardinality(entries) = (IF after > 0 THEN 1 ELSE 0)
                      /\ \A k \in entries :
                            results[i].remaining_orders[k].remaining_qty = after
        /\ \A r \in Range(results[i].remaining_orders) :
              \E o \in Range(InputOrders(i)) : o.id = r.id

\* C33 happens: a bundle with a trade that leaves one order partly filled,
\* next to an order that was not filled at all
C33_Witness ==
    \E i \in Bundles :
        /\ results[i].trades # <<>>
        /\ \E o \in Range(InputOrders(i)) :
              /\ FilledQty(results[i].trades, o.id) = 1
              /\ o.remaining_qty = 2
              /\ RemainingEntries(i, o.id) # {}
        /\ \E o \in Range(InputOrders(i)) :
              /\ o.order_type # "Cancel"
              /\ FilledQty(results[i].trades, o.id) = 0
              /\ RemainingEntries(i, o.id) # {}

-----------------------------------------------------------------------------
(* Escrow-first settlement of a bundle on Tier1Settler *)

\* the funds that back an order: price * quantity of the quote asset for a
\* Limit buy, quantity of the base asset for a Limit sell, nothing otherwise
EscrowAsset(o) == IF o.side = "Buy" THEN Market.quote ELSE Market.base
EscrowAmount(o) ==
    IF o.order_type # "Limit" THEN 0
    ELSE IF o.side = "Buy" THEN Unwrap(o.price) * o.quantity
    ELSE o.quantity

\* deposit and freeze of the backing of each Limit order, order by order, as
\* the end-to-end tests fund their settler
RECURSIVE FundOrders(_, _)
FundOrders(bal, orders) ==
    IF orders = <<>> THEN bal
    ELSE LET o == Head(orders)
         IN IF EscrowAmount(o) = 0 THEN FundOrders(bal, Tail(orders))
            ELSE LET d == T1_deposit(bal, o.user_id, EscrowAsset(o), EscrowAmount(o))
                     f == T1_freeze(d.bal, o.user_id, EscrowAsset(o), EscrowAmount(o))
                 IN FundOrders(f.bal, Tail(orders))

\* `for trade in &bundle.trades { settler.settle_trade(trade) }`: the results
\* of the calls and the ledger after each of them
RECURSIVE SettleAll(_, _, _, _)
SettleAll(bal, s, o, trades) ==
    IF trades = <<>> THEN <<>>
    ELSE LET r == T1_settle_trade(bal, s, o, MaxOrders, Head(trades))
         IN <<[res |-> r.res, bal |-> r.bal]>>
               \o SettleAll(r.bal, r.settled, r.order, Tail(trades))

\* the settlement of bundle i on a settler funded for its batch
Settlement(i) == SettleAll(FundOrders(<<>>, InputOrders(i)), {}, <<>>, results[i].trades)

Settleable(i) ==
    \A k \in 1 .. Len(Settlement(i)) :
        /\ Settlement(i)[k].res # "InsufficientFrozen"
        /\ \A key \in DOMAIN Settlement(i)[k].bal : Settlement(i)[k].bal[key].frozen >= 0

-----------------------------------------------------------------------------
(* Trade ids within a bundle *)

\* the epoch (batch) id a bundle carries
BundleEpoch(i) == IF sut = "core_matcher" THEN results[i].batch_id ELSE results[i].epoch_id

\* C35: in every bundle of both matchers the i-th emitted trade (from 0) has
\* the id TradeId::deterministic(epoch_id, i): the ids of a bundle are
\* pairwise distinct, and two runs on the same batch, by matchers of
\* different nodes, give the trade at each position the same id.
C35_TradeIdsByPosition ==
    /\ \A i \in Bundles :
          /\ \A k \in 1 .. Len(results[i].trades) :
                results[i].trades[k].id = TradeIdDeterministic(BundleEpoch(i), k - 1)
          /\ \A k, l \in 1 .. Len(results[i].trades) :
                k # l => results[i].trades[k].id # results[i].trades[l].id
    /\ \A i, j \in Bundles :
          \A k \in 1 .. Min(Len(results[i].trades), Len(results[j].trades)) :
             results[i].trades[k].id = results[j].trades[k].id

\* C35 happens: the core matchers of two different nodes have each produced a
\* bundle of two trades
C35_Witness ==
    /\ sut = "core_matcher"
    /\ Bundles = {1, 2}
    /\ Len(results[1].trades) = 2
    /\ Len(results[2].trades) = 2
    /\ results[1].trades[1].matcher_node # results[2].trades[1].matcher_node

-----------------------------------------------------------------------------
(* The escrow with the four operations that keep SpendRights backed: deposit, *)
(* mint, release, mark_spent                                                 *)

BackingNext ==
    \/ \E u \in Users, a \in EscrowAssets, x \in Amounts :
          \/ EscrowDeposit(u, a, x)
          \/ EscrowMint(u, a, x)
    \/ \E sr_id \in RightIds : EscrowRelease(sr_id) \/ EscrowMarkSpent(sr_id)

SpecBacking == EscrowInit /\ [][BackingNext]_vars

\* the sum of the amounts of the Active SpendRights of user u for asset a
\* among those with the given ids
RECURSIVE ActiveSum(_, _, _, _)
ActiveSum(rights, ids, u, a) ==
    IF ids = {} THEN 0
    ELSE LET id == CHOOSE x \in ids : TRUE
             sr == rights[id]
         IN (IF sr.user_id = u /\ sr.asset = a /\ sr.state = "Active"
             THEN sr.amount ELSE 0) + ActiveSum(rights, ids \ {id}, u, a)

Backed ==
    \A u \in Users, a \in EscrowAssets :
        Get(balances, <<u, a>>).frozen >= ActiveSum(spend_rights, DOMAIN spend_rights, u, a)

\* C36: in every state reachable through ingress deposit and EscrowManager
\* mint, release and mark_spent, for every user and asset the frozen balance
\* is at least the sum of the amounts of the user's Active SpendRights for
\* the asset.
C36_ActiveRightsBacked == Backed

\* the same in the states where no SpendRight has a negative amount
BackedWithoutNegativeRights ==
    (\A id \in DOMAIN spend_rights : spend_rights[id].amount >= 0) => Backed

-----------------------------------------------------------------------------
(* Bounded guards with insertion-ordered eviction, checked under SpecGuard *)

\* the position in the log of accepted ids at which id was inserted last
InsertedAt(id) ==
    CHOOSE j \in 1 .. Len(marked_log) :
        marked_log[j] = id /\ \A k \in (j + 1) .. Len(marked_log) : marked_log[k] # id

\* the id held by the guard that was inserted earliest
EarliestHeld ==
    CHOOSE id \in settled : \A other \in settled : InsertedAt(id) <= InsertedAt(other)

-----------------------------------------------------------------------------
(* The risk kernel specification: validate, advance_epoch, set_last_price *)

RiskCall(op, user_id, order_type, res) ==
    [op |-> op, user_id |-> user_id, order_type |-> order_type, res |-> res]

\* RiskKernel::validate(order)
RiskValidate(o) ==
    /\ sut = "risk_kernel"
    /\ calls < MaxCalls
    /\ LET r == RK_validate(epoch_order_counts, last_prices, MaxOrdersPerUserPerEpoch,
                            MaxOrderSize, MaxPriceDeviation, o)
       IN /\ epoch_order_counts' = r.counts
          /\ last' = RiskCall("validate", o.user_id, o.order_type, r.res)
          /\ validated_log' =
                IF r.res # "Ok" THEN validated_log
                ELSE IF o.order_type = "Cancel"
                THEN [validated_log EXCEPT ![o.user_id].cancels = @ + 1]
                ELSE [validated_log EXCEPT ![o.user_id].orders = @ + 1]
    /\ calls' = calls + 1
    /\ UNCHANGED <<sut, ledgerVars, historyVars, matchVars, escrowVars, limiterVars,
                   securityVars, current_epoch, last_prices>>

\* RiskKernel::advance_epoch(epoch_id)
RiskAdvanceEpoch(epoch_id) ==
    /\ sut = "risk_kernel"
    /\ calls < MaxCalls
    /\ current_epoch' = epoch_id
    /\ epoch_order_counts' = <<>>
    /\ validated_log' = [u \in Users |-> [orders |-> 0, cancels |-> 0]]
    /\ last' = RiskCall("advance_epoch", "alice", "none", "Ok")
    /\ calls' = calls + 1
    /\ UNCHANGED <<sut, ledgerVars, historyVars, matchVars, escrowVars, limiterVars,
                   securityVars, last_prices>>

\* RiskKernel::set_last_price(market, price)
RiskSetLastPrice(price) ==
    /\ sut = "risk_kernel"
    /\ last_prices' = Put(last_prices, RiskMarket, price)
    /\ last' = RiskCall("set_last_price", "alice", "none", "Ok")
    /\ UNCHANGED <<sut, calls, ledgerVars, historyVars, matchVars, escrowVars,
                   limiterVars, securityVars, epoch_order_counts, current_epoch,
                   validated_log>>

RiskInit ==
    /\ sut = "risk_kernel"
    /\ LedgerVarsInit
    /\ MatchVarsInit
    /\ ServiceVarsInit

RiskNext ==
    \/ \E o \in RiskOrders : RiskValidate(o)
    \/ \E e \in 0 .. 1 : RiskAdvanceEpoch(e)
    \/ \E p \in {0, 1} : RiskSetLastPrice(p)

SpecRisk == RiskInit /\ [][RiskNext]_vars

\* C38 as stated: between two advance_epoch calls validate returns Ok for at
\* most max_orders_per_user_per_epoch orders of any single user, and orders
\* rejected by any check do not count toward the cap.
C38_EpochCapOnEveryOrder ==
    \A u \in Users :
        /\ validated_log[u].orders + validated_log[u].cancels <= MaxOrdersPerUserPerEpoch
        /\ user_order_count(epoch_order_counts, u) <= validated_log[u].orders + validated_log[u].cancels

\* C38 as the kernel behaves: the cap holds for the orders that are no
\* Cancel; the count of a user is the number of the user's non-Cancel orders
\* accepted since the last advance_epoch, so rejected orders and Cancel
\* orders do not count, and a further non-Cancel order that passes the other
\* checks is rejected with OrderFloodDetected exactly at the cap.
C38_EpochCapOnNonCancel ==
    /\ \A u \in Users :
          /\ validated_log[u].orders <= MaxOrdersPerUserPerEpoch
          /\ user_order_count(epoch_order_counts, u) = validated_log[u].orders
    /\ \A o \in RiskOrders :
          LET r == RK_validate(epoch_order_counts, last_prices, MaxOrdersPerUserPerEpoch,
                               MaxOrderSize, MaxPriceDeviation, o)
          IN /\ r.res = "OrderFloodDetected" =>
                   validated_log[o.user_id].orders = MaxOrdersPerUserPerEpoch
             /\ (o.order_type # "Cancel"
                 /\ validated_log[o.user_id].orders = MaxOrdersPerUserPerEpoch)
                => r.res # "Ok"
             /\ (o.order_type = "Cancel" /\ o.quantity > 0) => r.res = "Ok"

\* C38 happens: a user at the cap has had an order rejected with
\* OrderFloodDetected after another order of the user had been rejected by
\* the price check, and a Cancel of the user was accepted
C38_Witness ==
    /\ last.op = "validate" /\ last.res = "OrderFloodDetected"
    /\ validated_log[last.user_id].orders = MaxOrdersPerUserPerEpoch
    /\ validated_log[last.user_id].cancels >= 1
    /\ calls > MaxOrdersPerUserPerEpoch + 2


-----------------------------------------------------------------------------
(* Sequence numbers of the orders of the ingress buffer *)

StrictlyIncreasingSequences(orders) ==
    \A i, j \in 1 .. Len(orders) : i < j => orders[i].sequence < orders[j].sequence

DistinctSequences(orders) ==
    \A i, j \in 1 .. Len(orders) : i # j => orders[i].sequence # orders[j].sequence

\* C39: every order accepted by the ingress PendingBuffer::push carries the
\* next value of a sequence counter of the buffer (the k-th accepted order,
\* counting from 0, has sequence k), so the orders held by the buffer have
\* sequence numbers that increase in push order and the orders of the batch
\* BatchSealer::seal makes of them carry pairwise distinct sequence numbers
C39_IngressPushAssignsSequence ==
    sut = "ingress_buffer"
    => /\ \A k \in 1 .. Len(ingress_buffer.orders) :
             ingress_buffer.orders[k].sequence = k - 1
       /\ StrictlyIncreasingSequences(ingress_buffer.orders)
       /\ sealed_batch # None => DistinctSequences(Unwrap(sealed_batch).orders)

\* the weaker consequence alone: the orders of a sealed batch of the ingress
\* crate carry pairwise distinct sequence numbers
IngressBatchDistinctSequences ==
    (sut = "ingress_buffer" /\ sealed_batch # None)
    => DistinctSequences(Unwrap(sealed_batch).orders)

\* what ingress push does: the stored order is the order handed in
IngressPushKeepsCallerSequence ==
    [][(sut = "ingress_buffer" /\ last'.op = "push" /\ last'.res = "Ok")
       => \E o \in {ingress_buffer'.orders[Len(ingress_buffer'.orders)]} :
             /\ o.sequence \in CallerSequences
             /\ o.epoch_id = None
             /\ ingress_buffer'.orders = Append(ingress_buffer.orders, o)]_vars

====
